---- MODULE Spec2Model ----
(***************************************************************************)
(* Model of the structural-metadata property views of cesium-native        *)
(* (CesiumGltf/PropertyView.h): the type validator, the value parser, the  *)
(* array codecs and the PropertyView constructors of every view family,    *)
(* and of the FeatureTexturePropertyView constructor                       *)
(* (CesiumGltf/src/FeatureTexturePropertyView.cpp).                        *)
(*                                                                         *)
(* The constructors are pure functions of a ClassProperty (and of a table  *)
(* or texture override), so each is an operator built from one operator    *)
(* per step of its body; a step is skipped once the constructor has        *)
(* returned (the member "ret" of a view under construction).  The state    *)
(* holds the inputs, the operation that ran and the view it produced.      *)
(***************************************************************************)
EXTENDS Integers, Sequences, FiniteSets, TLC

VARIABLES
    T,      \* the requested view: the template arguments of PropertyView
    cp,     \* the ClassProperty handed to the constructor
    prop,   \* the PropertyTableProperty / PropertyTextureProperty override
    view,   \* the constructed PropertyView (its private members)
    pc,     \* which operation has run: "input", then "class", "table", "texture"
            \* or the name of the function applied
    result, \* what a function applied on its own returned
    model   \* the glTF Model handed to the FeatureTexturePropertyView constructor

vars == <<T, cp, prop, view, pc, result, model>>

(***************************************************************************)
(* Bounds of the model.                                                    *)
(***************************************************************************)
\* A descriptor pair (ClassProperty, override) differs from the minimal
\* descriptor matching the requested view in at most MaxDeclared members.
MaxDeclared == 2
\* A declared fixed array count is in 1..MaxCount.
MaxCount == 2
\* The arrays handed to the numeric and string array codecs hold at most
\* MaxElements elements, those handed to the boolean codec at most
\* MaxBooleans (more than one byte of bits).
MaxElements == 3
MaxBooleans == 9
\* The arrays handed to the value parsers hold at most MaxComponents
\* components (one more than a 2 x 2 matrix has).
MaxComponents == 5

(***************************************************************************)
(* PropertyViewStatus                                                      *)
(***************************************************************************)
Valid == 0
ErrorNonexistentProperty == 1
ErrorTypeMismatch == 2
ErrorComponentTypeMismatch == 3
ErrorArrayTypeMismatch == 4
ErrorInvalidNormalization == 5
ErrorInvalidOffset == 6
ErrorInvalidScale == 7
ErrorInvalidMax == 8
ErrorInvalidMin == 9
ErrorInvalidNoDataValue == 10
ErrorInvalidDefaultValue == 11

(***************************************************************************)
(* JSON values (CesiumUtility::JsonValue).  An element of a JSON array is  *)
(* an atom [k, n, s]: a number n, a string s (its bytes) or a boolean      *)
(* (n = 1 for true); a raw value adds the array a.  Absent stands for an   *)
(* std::optional<JsonValue> that holds nothing.                            *)
(***************************************************************************)
ANum(n) == [k |-> "num", n |-> n, s |-> <<>>]
AStr(s) == [k |-> "str", n |-> 0, s |-> s]
ABool(b) == [k |-> "bool", n |-> IF b THEN 1 ELSE 0, s |-> <<>>]

JNum(n) == [k |-> "num", n |-> n, s |-> <<>>, a |-> <<>>]
JStr(s) == [k |-> "str", n |-> 0, s |-> s, a |-> <<>>]
JBool(b) == [k |-> "bool", n |-> IF b THEN 1 ELSE 0, s |-> <<>>, a |-> <<>>]
JArr(a) == [k |-> "arr", n |-> 0, s |-> <<>>, a |-> a]
Absent == [k |-> "absent", n |-> 0, s |-> <<>>, a |-> <<>>]

Declared(raw) == raw.k # "absent"
\* An array element seen as a JSON value of its own.
AsJson(atom) == [k |-> atom.k, n |-> atom.n, s |-> atom.s, a |-> <<>>]

(***************************************************************************)
(* std::optional<X>: the value is a sequence, a scalar <<x>>, a vector or  *)
(* matrix its components, a buffer its bytes.                              *)
(***************************************************************************)
None == [has |-> FALSE, v |-> <<>>]
Some(x) == [has |-> TRUE, v |-> x]

(***************************************************************************)
(* Property types and component types.                                     *)
(***************************************************************************)
convertStringToPropertyType(str) ==
    CASE str = "SCALAR" -> "Scalar"
      [] str = "VEC2" -> "Vec2"
      [] str = "MAT2" -> "Mat2"
      [] str = "BOOLEAN" -> "Boolean"
      [] str = "STRING" -> "String"
      [] str = "ENUM" -> "Enum"
      [] OTHER -> "Invalid"

convertStringToPropertyComponentType(str) ==
    CASE str = "UINT8" -> "Uint8"
      [] str = "INT16" -> "Int16"
      [] str = "FLOAT32" -> "Float32"
      [] str = "FLOAT64" -> "Float64"
      [] OTHER -> "None"

IsFloat(component) == component \in {"Float32", "Float64"}

\* sizeof of a component type, in bytes.
SizeOfComponent(component) ==
    CASE component = "Uint8" -> 1
      [] component = "Int16" -> 2
      [] component = "Float32" -> 4
      [] component = "Float64" -> 8
      [] OTHER -> 1

\* glm length of the element type: components of a vector, columns of a matrix.
LengthOf(type) == IF type \in {"Vec2", "Mat2"} THEN 2 ELSE 1

ComponentsOf(type) ==
    CASE type = "Vec2" -> 2
      [] type = "Mat2" -> 4
      [] OTHER -> 1

\* TypeToNormalizedType<ElementType>: the same shape with double components.
NormalizedTypeOf(E) == [E EXCEPT !.component = "Float64"]

SizeOf(E) == ComponentsOf(E.type) * SizeOfComponent(E.component)

(***************************************************************************)
(* Type Validator.  E is the element type [type, component], cls the       *)
(* ClassProperty.                                                          *)
(***************************************************************************)
validatePropertyTypeSwapped(E, cls) ==
    IF cls.array
    THEN ErrorArrayTypeMismatch
    ELSE IF ~cls.hasComponentType /\ E.component # "None"
    THEN ErrorComponentTypeMismatch
    ELSE IF cls.hasComponentType
            /\ E.component # convertStringToPropertyComponentType(cls.componentType)
    THEN ErrorComponentTypeMismatch
    ELSE IF E.type # convertStringToPropertyType(cls.type)
    THEN ErrorTypeMismatch
    ELSE Valid

validatePropertyType(E, cls) ==
    IF E.type # convertStringToPropertyType(cls.type)
    THEN ErrorTypeMismatch
    ELSE IF ~cls.hasComponentType /\ E.component # "None"
    THEN ErrorComponentTypeMismatch
    ELSE IF cls.hasComponentType
            /\ E.component # convertStringToPropertyComponentType(cls.componentType)
    THEN ErrorComponentTypeMismatch
    ELSE IF cls.array
    THEN ErrorArrayTypeMismatch
    ELSE Valid

validateArrayPropertyType(E, cls) ==
    IF E.type # convertStringToPropertyType(cls.type)
    THEN ErrorTypeMismatch
    ELSE IF ~cls.hasComponentType /\ E.component # "None"
    THEN ErrorComponentTypeMismatch
    ELSE IF cls.hasComponentType
            /\ E.component # convertStringToPropertyComponentType(cls.componentType)
    THEN ErrorComponentTypeMismatch
    ELSE IF ~cls.array
    THEN ErrorArrayTypeMismatch
    ELSE Valid

(***************************************************************************)
(* Value Parser.                                                           *)
(***************************************************************************)
\* JsonValue::getSafeNumber<T>: the number, when it is one and T holds it
\* without loss; the two exceptions it throws are caught by getScalar.
InRange(component, n) ==
    CASE component = "Uint8" -> 0 <= n /\ n <= 255
      [] component = "Int16" -> -32768 <= n /\ n <= 32767
      [] OTHER -> TRUE

getScalar(component, json) ==
    IF json.k = "num" /\ InRange(component, json.n) THEN Some(<<json.n>>) ELSE None

RECURSIVE ParseComponents(_, _, _)
\* The loop of getVecN / getMatN over array[i .. Len]: stops at the first
\* component that does not parse.
ParseComponents(component, array, i) ==
    IF i > Len(array)
    THEN Some(<<>>)
    ELSE LET value == getScalar(component, AsJson(array[i]))
         IN  IF ~value.has
             THEN None
             ELSE LET rest == ParseComponents(component, array, i + 1)
                  IN  IF rest.has THEN Some(value.v \o rest.v) ELSE None

\* getVecN without the test of the array's length.
getVecNOfAnyLength(E, json) ==
    IF json.k # "arr"
    THEN None
    ELSE ParseComponents(E.component, json.a, 1)

getVecN(E, json) ==
    IF json.k # "arr"
    THEN None
    ELSE IF Len(json.a) # LengthOf(E.type)
    THEN None
    ELSE ParseComponents(E.component, json.a, 1)

getMatN(E, json) ==
    IF json.k # "arr"
    THEN None
    ELSE IF Len(json.a) # LengthOf(E.type) * LengthOf(E.type)
    THEN None
    ELSE ParseComponents(E.component, json.a, 1)

\* PropertyView::getValue: dispatch on the shape of the element type.
getValue(E, json) ==
    CASE E.type = "Scalar" -> getScalar(E.component, json)
      [] E.type = "Vec2" -> getVecN(E, json)
      [] E.type = "Mat2" -> getMatN(E, json)
      [] OTHER -> None

getBooleanValue(json) == IF json.k # "bool" THEN None ELSE Some(<<json.n>>)

RECURSIVE UpToNul(_)
\* std::string(const char*): the bytes before the first NUL.
UpToNul(s) ==
    IF s = <<>> \/ Head(s) = 0 THEN <<>> ELSE <<Head(s)>> \o UpToNul(Tail(s))

getStringValue(json) == IF json.k # "str" THEN None ELSE Some(UpToNul(json.s))

(***************************************************************************)
(* Object representations, as std::memcpy copies them: little-endian,      *)
(* two's complement integers, IEEE-754 floats.  The numbers of the model   *)
(* are integers n with |n| < 2^20, so a float's low mantissa bits are 0.    *)
(***************************************************************************)
RECURSIVE LittleEndian(_, _)
\* The w low bytes of x >= 0, least significant first.
LittleEndian(x, w) ==
    IF w = 0 THEN <<>> ELSE <<x % 256>> \o LittleEndian(x \div 256, w - 1)

RECURSIVE Log2(_)
Log2(n) == IF n < 2 THEN 0 ELSE 1 + Log2(n \div 2)

\* The bits of the float n (n >= 0): biased exponent and 23 mantissa bits.
Float32Bits(n) ==
    IF n = 0 THEN 0
    ELSE LET e == Log2(n) IN (e + 127) * (2 ^ 23) + (n - 2 ^ e) * (2 ^ (23 - e))

\* The high 32 bits of the double n (n >= 0); its low 32 bits are 0.
Float64HighBits(n) ==
    IF n = 0 THEN 0
    ELSE LET e == Log2(n) IN (e + 1023) * (2 ^ 20) + (n - 2 ^ e) * (2 ^ (20 - e))

BytesOfComponent(component, n) ==
    CASE component = "Uint8" -> <<n % 256>>
      [] component = "Int16" -> LittleEndian((n + 65536) % 65536, 2)
      [] component = "Float32" -> LittleEndian(Float32Bits(n), 4)
      [] component = "Float64" -> <<0, 0, 0, 0>> \o LittleEndian(Float64HighBits(n), 4)
      [] OTHER -> <<n % 256>>

RECURSIVE BytesOfElement(_, _)
\* One parsed element (its components in order) as sizeof(ElementType) bytes.
BytesOfElement(component, components) ==
    IF components = <<>>
    THEN <<>>
    ELSE BytesOfComponent(component, Head(components))
             \o BytesOfElement(component, Tail(components))

(***************************************************************************)
(* Array Codec.                                                            *)
(***************************************************************************)
RECURSIVE ParseElements(_, _, _)
\* The loop of getArrayValue over array[i .. Len]: every element through
\* getScalar / getVecN / getMatN, nothing once one fails; then the memcpy of
\* the parsed elements.
ParseElements(E, array, i) ==
    IF i > Len(array)
    THEN Some(<<>>)
    ELSE LET element == getValue(E, AsJson(array[i]))
         IN  IF ~element.has
             THEN None
             ELSE LET rest == ParseElements(E, array, i + 1)
                  IN  IF rest.has
                      THEN Some(BytesOfElement(E.component, element.v) \o rest.v)
                      ELSE None

\* getArrayValue that takes a value that is not an array for an empty one.
getArrayValueOfAnything(E, json) ==
    IF json.k # "arr" THEN Some(<<>>) ELSE ParseElements(E, json.a, 1)

\* PropertyView<PropertyArrayView<ElementType>>::getArrayValue
getArrayValue(E, json) ==
    IF json.k # "arr" THEN None ELSE ParseElements(E, json.a, 1)

\* PropertyView<PropertyArrayView<ElementType>, true>::getArrayValue<T>
getArrayValueNormalized(E, json) ==
    IF json.k # "arr" THEN None ELSE ParseElements(E, json.a, 1)

\* values[byteIndex] |= value, for a byte holding `byte`.
SetBit(byte, bitIndex, bit) ==
    IF bit = 1 /\ (byte \div (2 ^ bitIndex)) % 2 = 0 THEN byte + 2 ^ bitIndex ELSE byte

RECURSIVE BooleanArrayLoop(_, _, _, _, _, _)
\* The for loop of getBooleanArrayValue from element i on.  byteIndex is a
\* size_t: with byteIndex = 0, byteIndex - 1 is SIZE_MAX and every vector is
\* shorter.  oob records a write values[byteIndex] past the end of values.
BooleanArrayLoop(array, i, values, byteIndex, bitIndex, size) ==
    IF i > Len(array)
    THEN [values |-> values, size |-> size, oob |-> FALSE]
    ELSE IF array[i].k # "bool"
    THEN [values |-> values, size |-> 0, oob |-> FALSE]
    ELSE LET grow == IF byteIndex = 0 THEN TRUE ELSE Len(values) < byteIndex - 1
             grown == IF grow THEN Append(values, 0) ELSE values
         IN  IF byteIndex >= Len(grown)
             THEN [values |-> grown, size |-> size, oob |-> TRUE]
             ELSE LET written == [grown EXCEPT ![byteIndex + 1] =
                                      SetBit(grown[byteIndex + 1], bitIndex, array[i].n)]
                  IN  IF bitIndex + 1 > 7
                      THEN BooleanArrayLoop(array, i + 1, written, byteIndex + 1, 0, size + 1)
                      ELSE BooleanArrayLoop(array, i + 1, written, byteIndex, bitIndex + 1, size + 1)

\* getBooleanArrayValue(jsonValue, size): the returned vector and size.
getBooleanArrayValue(json, size) ==
    IF json.k # "arr"
    THEN [values |-> <<>>, size |-> size, oob |-> FALSE]
    ELSE BooleanArrayLoop(json.a, 1, <<>>, 0, 0, size)

RECURSIVE StringOffsets(_, _, _)
\* stringOffsets after the loop over array[i .. Len], `last` its last entry.
StringOffsets(array, i, last) ==
    IF i > Len(array)
    THEN <<>>
    ELSE <<last + Len(array[i].s)>> \o StringOffsets(array, i + 1, last + Len(array[i].s))

RECURSIVE ConcatStrings(_, _)
ConcatStrings(array, i) ==
    IF i > Len(array) THEN <<>> ELSE array[i].s \o ConcatStrings(array, i + 1)

RECURSIVE narrowOffsetsBuffer(_, _)
\* static_cast<T> of each offset (w = sizeof(T)) and its bytes.  The model's
\* offsets are below 2^31, so a cast to 32 bits or more keeps them.
narrowOffsetsBuffer(offsets, w) ==
    IF offsets = <<>>
    THEN <<>>
    ELSE LittleEndian(IF w >= 4 THEN Head(offsets) ELSE Head(offsets) % (2 ^ (8 * w)), w)
             \o narrowOffsetsBuffer(Tail(offsets), w)

\* OffsetTypeFor with the first limit one too high.
OffsetTypeForOneTooHigh(totalLength) ==
    IF totalLength <= 256 THEN "Uint8"
    ELSE IF totalLength <= 65535 THEN "Uint16"
    ELSE "Uint32"

\* The width getStringArrayValue picks for totalLength.  Lengths of the
\* model are below 2^31, so the test against the uint32_t maximum holds.
OffsetTypeFor(totalLength) ==
    IF totalLength <= 255 THEN "Uint8"
    ELSE IF totalLength <= 65535 THEN "Uint16"
    ELSE "Uint32"

OffsetWidth(offsetType) ==
    CASE offsetType = "Uint8" -> 1
      [] offsetType = "Uint16" -> 2
      [] offsetType = "Uint32" -> 4
      [] OTHER -> 8

\* getStringArrayValue with an offset table that lacks its first entry.
getStringArrayValueWithoutFirstOffset(json, offsets, offsetType, size) ==
    IF json.k # "arr"
    THEN [values |-> <<>>, offsets |-> offsets, offsetType |-> offsetType, size |-> size]
    ELSE IF \E i \in 1..Len(json.a) : json.a[i].k # "str"
    THEN [values |-> <<>>, offsets |-> offsets, offsetType |-> offsetType, size |-> size]
    ELSE LET stringOffsets == StringOffsets(json.a, 1, 0)
             totalLength == IF stringOffsets = <<>> THEN 0
                            ELSE stringOffsets[Len(stringOffsets)]
             type == OffsetTypeFor(totalLength)
         IN  [values |-> ConcatStrings(json.a, 1),
              offsets |-> narrowOffsetsBuffer(stringOffsets, OffsetWidth(type)),
              offsetType |-> type,
              size |-> Len(json.a)]

\* getStringArrayValue(jsonValue, offsets, offsetType, size): the returned
\* vector and the three out-parameters, which an early return leaves alone.
getStringArrayValue(json, offsets, offsetType, size) ==
    IF json.k # "arr"
    THEN [values |-> <<>>, offsets |-> offsets, offsetType |-> offsetType, size |-> size]
    ELSE IF \E i \in 1..Len(json.a) : json.a[i].k # "str"
    THEN [values |-> <<>>, offsets |-> offsets, offsetType |-> offsetType, size |-> size]
    ELSE LET stringOffsets == <<0>> \o StringOffsets(json.a, 1, 0)
             totalLength == stringOffsets[Len(stringOffsets)]
             type == OffsetTypeFor(totalLength)
         IN  [values |-> ConcatStrings(json.a, 1),
              offsets |-> narrowOffsetsBuffer(stringOffsets, OffsetWidth(type)),
              offsetType |-> type,
              size |-> Len(json.a)]

(***************************************************************************)
(* The private members of a property view.  A family leaves the members it *)
(* does not have at these values.  ret: the constructor has returned.      *)
(***************************************************************************)
EmptyView ==
    [status |-> Valid, ret |-> FALSE, count |-> 0, required |-> FALSE,
     offset |-> None, scale |-> None, max |-> None, min |-> None,
     noData |-> None, defaultValue |-> None,
     \* the buffers of the boolean-array and string-array views
     noDataValues |-> <<>>, noDataOffsets |-> <<>>,
     noDataOffsetType |-> "None", noDataSize |-> 0,
     defaultValues |-> <<>>, defaultValueOffsets |-> <<>>,
     defaultValueOffsetType |-> "None", defaultValueSize |-> 0,
     \* _size of the boolean-array view
     size |-> 0]

Return(v) == [v EXCEPT !.ret = TRUE]
Fail(v, status) == [v EXCEPT !.status = status, !.ret = TRUE]

\* PropertyView(): the empty property instance, the same in every family.
DefaultCtor == Return([EmptyView EXCEPT !.status = ErrorNonexistentProperty])

\* if (_status != PropertyViewStatus::Valid) { return; }
ReturnUnlessValid(v) == IF v.ret \/ v.status = Valid THEN v ELSE Return(v)

\* CountOf that leaves _count at 0.
CountOfNothing(cls) == 0

\* classProperty.count ? *classProperty.count : 0
CountOf(cls) == IF cls.hasCount THEN cls.count ELSE 0

\* _member = value, then the test of _tested: the error and a return when it
\* is empty.
AssignAndRequire(v, member, value, tested, status) ==
    LET w == [v EXCEPT ![member] = value]
    IN  IF ~w[tested].has THEN Fail(w, status) ELSE w

\* _member = value, then !_member || (_count > 0 && _member->size() != _count),
\* with size() the byte size of the stored buffer.
AssignSized(v, member, value, status) ==
    LET w == [v EXCEPT ![member] = value]
    IN  IF ~value.has \/ (w.count > 0 /\ Len(value.v) # w.count)
        THEN Fail(w, status)
        ELSE w

\* The same with _count > 0 || _member->size() != _count.
AssignSizedOverride(v, member, value, status) ==
    LET w == [v EXCEPT ![member] = value]
    IN  IF ~value.has \/ (w.count > 0 \/ Len(value.v) # w.count)
        THEN Fail(w, status)
        ELSE w

(***************************************************************************)
(* PropertyView<ElementType, false>: non-normalized scalars, vectors and   *)
(* matrices.  Each step takes the raw value it reads, so the copies of a   *)
(* step in the three constructors are one operator.                        *)
(***************************************************************************)
ScalarNormalization(cls, v) ==
    IF v.ret THEN v
    ELSE IF cls.normalized THEN Fail(v, ErrorInvalidNormalization) ELSE v

\* ScalarOffset without the switch on the component type.
ScalarOffsetUngated(E, raw, v) ==
    IF v.ret \/ ~Declared(raw) THEN v
    ELSE AssignAndRequire(v, "offset", getValue(E, raw), "offset", ErrorInvalidOffset)

ScalarOffset(E, raw, v) ==
    IF v.ret \/ ~Declared(raw) THEN v
    ELSE IF IsFloat(E.component)
    THEN AssignAndRequire(v, "offset", getValue(E, raw), "offset", ErrorInvalidOffset)
    ELSE Fail(v, ErrorInvalidOffset)

ScalarScale(E, raw, v) ==
    IF v.ret \/ ~Declared(raw) THEN v
    ELSE IF IsFloat(E.component)
    THEN AssignAndRequire(v, "scale", getValue(E, raw), "scale", ErrorInvalidScale)
    ELSE Fail(v, ErrorInvalidScale)

ScalarMax(E, raw, v) ==
    IF v.ret \/ ~Declared(raw) THEN v
    ELSE AssignAndRequire(v, "max", getValue(E, raw), "scale", ErrorInvalidMax)

ScalarMin(E, raw, v) ==
    IF v.ret \/ ~Declared(raw) THEN v
    ELSE AssignAndRequire(v, "min", getValue(E, raw), "scale", ErrorInvalidMin)

ScalarNoDataDropped(E, raw, v) ==
    IF v.ret \/ ~Declared(raw) THEN v
    ELSE IF v.required THEN v
    ELSE AssignAndRequire(v, "noData", getValue(E, raw), "noData", ErrorInvalidNoDataValue)

ScalarNoData(E, raw, v) ==
    IF v.ret \/ ~Declared(raw) THEN v
    ELSE IF ~v.required
    THEN AssignAndRequire(v, "noData", getValue(E, raw), "noData", ErrorInvalidNoDataValue)
    ELSE IF ~v.noData.has THEN Fail(v, ErrorInvalidNoDataValue) ELSE v

ScalarDefault(E, raw, v) ==
    IF v.ret \/ ~Declared(raw) THEN v
    ELSE IF ~v.required
    THEN AssignAndRequire(v, "defaultValue", getValue(E, raw), "defaultValue", ErrorInvalidDefaultValue)
    ELSE IF ~v.defaultValue.has THEN Fail(v, ErrorInvalidDefaultValue) ELSE v

ScalarClassCtor(E, cls) ==
    LET v0 == [EmptyView EXCEPT !.status = validatePropertyType(E, cls),
                                !.required = cls.required]
        v1 == ReturnUnlessValid(v0)
        v2 == ScalarNormalization(cls, v1)
        v3 == ScalarOffset(E, cls.offset, v2)
        v4 == ScalarScale(E, cls.scale, v3)
        v5 == ScalarMax(E, cls.max, v4)
        v6 == ScalarMin(E, cls.min, v5)
        v7 == ScalarNoData(E, cls.noData, v6)
        v8 == ScalarDefault(E, cls.defaultProperty, v7)
    IN  Return(v8)

\* ScalarOverride with the class-level value taking precedence: a member the
\* ClassProperty resolved is not read from the override.
ScalarOverrideClassFirst(E, property, constructed) ==
    LET v0 == [constructed EXCEPT !.ret = FALSE]
        v1 == ReturnUnlessValid(v0)
        v2 == IF constructed.offset.has THEN v1 ELSE ScalarOffset(E, property.offset, v1)
        v3 == IF constructed.scale.has THEN v2 ELSE ScalarScale(E, property.scale, v2)
        v4 == IF constructed.max.has THEN v3 ELSE ScalarMax(E, property.max, v3)
        v5 == IF constructed.min.has THEN v4 ELSE ScalarMin(E, property.min, v4)
    IN  Return(v5)

ScalarOverride(E, property, constructed) ==
    LET v0 == [constructed EXCEPT !.ret = FALSE]
        v1 == ReturnUnlessValid(v0)
        v2 == ScalarOffset(E, property.offset, v1)
        v3 == ScalarScale(E, property.scale, v2)
        v4 == ScalarMax(E, property.max, v3)
        v5 == ScalarMin(E, property.min, v4)
    IN  Return(v5)

ScalarTableCtor(E, cls, property) ==
    ScalarOverride(E, property, ScalarClassCtor(E, cls))

\* The constructor from a texture property that does not read the property.
ScalarTextureCtorOfClass(E, cls, property) ==
    ScalarClassCtor(E, cls)

ScalarTextureCtor(E, cls, property) ==
    ScalarOverride(E, property, ScalarClassCtor(E, cls))

(***************************************************************************)
(* PropertyView<ElementType, true>: normalized scalars, vectors, matrices. *)
(***************************************************************************)
\* Sets the status and goes on: this branch has no return.
NormScalarNormalization(cls, v) ==
    IF v.ret THEN v
    ELSE IF ~cls.normalized
    THEN [v EXCEPT !.status = ErrorInvalidNormalization]
    ELSE v

NormScalarOffset(E, raw, v) ==
    IF v.ret \/ ~Declared(raw) THEN v
    ELSE AssignAndRequire(v, "offset", getValue(NormalizedTypeOf(E), raw), "offset", ErrorInvalidOffset)

NormScalarScale(E, raw, v) ==
    IF v.ret \/ ~Declared(raw) THEN v
    ELSE AssignAndRequire(v, "scale", getValue(NormalizedTypeOf(E), raw), "scale", ErrorInvalidScale)

NormScalarMax(E, raw, v) ==
    IF v.ret \/ ~Declared(raw) THEN v
    ELSE AssignAndRequire(v, "max", getValue(NormalizedTypeOf(E), raw), "scale", ErrorInvalidMax)

NormScalarMin(E, raw, v) ==
    IF v.ret \/ ~Declared(raw) THEN v
    ELSE AssignAndRequire(v, "min", getValue(NormalizedTypeOf(E), raw), "scale", ErrorInvalidMin)

NormScalarRequired(cls, v) ==
    IF v.ret \/ ~v.required THEN v
    ELSE IF Declared(cls.noData) THEN Fail(v, ErrorInvalidNoDataValue)
    ELSE IF Declared(cls.defaultProperty) THEN Fail(v, ErrorInvalidDefaultValue)
    ELSE v

NormScalarNoData(E, raw, v) ==
    IF v.ret \/ ~Declared(raw) THEN v
    ELSE AssignAndRequire(v, "noData", getValue(E, raw), "noData", ErrorInvalidNoDataValue)

NormScalarDefault(E, raw, v) ==
    IF v.ret \/ ~Declared(raw) THEN v
    ELSE AssignAndRequire(v, "defaultValue", getValue(NormalizedTypeOf(E), raw), "defaultValue", ErrorInvalidDefaultValue)

NormScalarClassCtor(E, cls) ==
    LET v0 == [EmptyView EXCEPT !.status = validatePropertyType(E, cls),
                                !.required = cls.required]
        v1 == ReturnUnlessValid(v0)
        v2 == NormScalarNormalization(cls, v1)
        v3 == NormScalarOffset(E, cls.offset, v2)
        v4 == NormScalarScale(E, cls.scale, v3)
        v5 == NormScalarMax(E, cls.max, v4)
        v6 == NormScalarMin(E, cls.min, v5)
        v7 == NormScalarRequired(cls, v6)
        v8 == NormScalarNoData(E, cls.noData, v7)
        v9 == NormScalarDefault(E, cls.defaultProperty, v8)
    IN  Return(v9)

NormScalarOverride(E, property, constructed) ==
    LET v0 == [constructed EXCEPT !.ret = FALSE]
        v1 == ReturnUnlessValid(v0)
        v2 == NormScalarOffset(E, property.offset, v1)
        v3 == NormScalarScale(E, property.scale, v2)
        v4 == NormScalarMax(E, property.max, v3)
        v5 == NormScalarMin(E, property.min, v4)
    IN  Return(v5)

NormScalarTableCtor(E, cls, property) ==
    NormScalarOverride(E, property, NormScalarClassCtor(E, cls))

NormScalarTextureCtor(E, cls, property) ==
    NormScalarOverride(E, property, NormScalarClassCtor(E, cls))

(***************************************************************************)
(* PropertyView<bool> and PropertyView<std::string_view>.  Their override  *)
(* constructors only delegate to the class constructor.                    *)
(***************************************************************************)
BoolDefault(raw, v) ==
    IF v.ret \/ ~Declared(raw) THEN v
    ELSE IF ~v.required
    THEN AssignAndRequire(v, "defaultValue", getBooleanValue(raw), "defaultValue", ErrorInvalidDefaultValue)
    ELSE IF ~v.defaultValue.has THEN Fail(v, ErrorInvalidDefaultValue) ELSE v

BoolClassCtor(E, cls) ==
    LET v0 == [EmptyView EXCEPT !.status = validatePropertyType(E, cls),
                                !.required = cls.required]
        v1 == ReturnUnlessValid(v0)
        v2 == BoolDefault(cls.defaultProperty, v1)
    IN  Return(v2)

StringNoData(raw, v) ==
    IF v.ret \/ ~Declared(raw) THEN v
    ELSE IF ~v.required
    THEN AssignAndRequire(v, "noData", getStringValue(raw), "noData", ErrorInvalidNoDataValue)
    ELSE IF ~v.noData.has THEN Fail(v, ErrorInvalidNoDataValue) ELSE v

StringDefault(raw, v) ==
    IF v.ret \/ ~Declared(raw) THEN v
    ELSE IF ~v.required
    THEN AssignAndRequire(v, "defaultValue", getStringValue(raw), "defaultValue", ErrorInvalidDefaultValue)
    ELSE IF ~v.defaultValue.has THEN Fail(v, ErrorInvalidDefaultValue) ELSE v

StringClassCtor(E, cls) ==
    LET v0 == [EmptyView EXCEPT !.status = validatePropertyType(E, cls),
                                !.required = cls.required]
        v1 == ReturnUnlessValid(v0)
        v2 == StringNoData(cls.noData, v1)
        v3 == StringDefault(cls.defaultProperty, v2)
    IN  Return(v3)

(***************************************************************************)
(* PropertyView<PropertyArrayView<ElementType>>: non-normalized arrays.    *)
(* _offset->size() and its like are sizes in bytes of the encoded buffer.  *)
(***************************************************************************)
ArrayNormalization(cls, v) ==
    IF v.ret THEN v
    ELSE IF cls.normalized THEN Fail(v, ErrorInvalidNormalization) ELSE v

ArrayOffset(E, raw, v) ==
    IF v.ret \/ ~Declared(raw) THEN v
    ELSE IF IsFloat(E.component)
    THEN AssignSized(v, "offset", getArrayValue(E, raw), ErrorInvalidOffset)
    ELSE Fail(v, ErrorInvalidOffset)

ArrayScale(E, raw, v) ==
    IF v.ret \/ ~Declared(raw) THEN v
    ELSE IF IsFloat(E.component)
    THEN AssignSized(v, "scale", getArrayValue(E, raw), ErrorInvalidScale)
    ELSE Fail(v, ErrorInvalidScale)

\* The class constructor's max and min.
ArrayMax(E, raw, v) ==
    IF v.ret \/ ~Declared(raw) THEN v
    ELSE AssignSized(v, "max", getArrayValue(E, raw), ErrorInvalidMax)

ArrayMin(E, raw, v) ==
    IF v.ret \/ ~Declared(raw) THEN v
    ELSE AssignSized(v, "min", getArrayValue(E, raw), ErrorInvalidMin)

\* The override constructors' max and min.
ArrayOverrideMax(E, raw, v) ==
    IF v.ret \/ ~Declared(raw) THEN v
    ELSE AssignAndRequire(v, "max", getArrayValue(E, raw), "scale", ErrorInvalidMax)

ArrayOverrideMin(E, raw, v) ==
    IF v.ret \/ ~Declared(raw) THEN v
    ELSE AssignAndRequire(v, "min", getArrayValue(E, raw), "scale", ErrorInvalidMin)

ArrayNoData(E, raw, v) ==
    IF v.ret \/ ~Declared(raw) THEN v
    ELSE IF ~v.required
    THEN AssignAndRequire(v, "noData", getArrayValue(E, raw), "noData", ErrorInvalidNoDataValue)
    ELSE IF ~v.noData.has THEN Fail(v, ErrorInvalidNoDataValue) ELSE v

ArrayDefault(E, raw, v) ==
    IF v.ret \/ ~Declared(raw) THEN v
    ELSE IF ~v.required
    THEN AssignAndRequire(v, "defaultValue", getArrayValue(E, raw), "defaultValue", ErrorInvalidDefaultValue)
    ELSE IF ~v.defaultValue.has THEN Fail(v, ErrorInvalidDefaultValue) ELSE v

ArrayClassCtor(E, cls) ==
    LET v0 == [EmptyView EXCEPT !.status = validateArrayPropertyType(E, cls),
                                !.count = CountOf(cls),
                                !.required = cls.required]
        v1 == ReturnUnlessValid(v0)
        v2 == ArrayNormalization(cls, v1)
        v3 == ArrayOffset(E, cls.offset, v2)
        v4 == ArrayScale(E, cls.scale, v3)
        v5 == ArrayMax(E, cls.max, v4)
        v6 == ArrayMin(E, cls.min, v5)
        v7 == ArrayNoData(E, cls.noData, v6)
        v8 == ArrayDefault(E, cls.defaultProperty, v7)
    IN  Return(v8)

ArrayOverride(E, property, constructed) ==
    LET v0 == [constructed EXCEPT !.ret = FALSE]
        v1 == ReturnUnlessValid(v0)
        v2 == ArrayOffset(E, property.offset, v1)
        v3 == ArrayScale(E, property.scale, v2)
        v4 == ArrayOverrideMax(E, property.max, v3)
        v5 == ArrayOverrideMin(E, property.min, v4)
    IN  Return(v5)

ArrayTableCtor(E, cls, property) ==
    ArrayOverride(E, property, ArrayClassCtor(E, cls))

ArrayTextureCtor(E, cls, property) ==
    ArrayOverride(E, property, ArrayClassCtor(E, cls))

(***************************************************************************)
(* PropertyView<PropertyArrayView<ElementType>, true>: normalized arrays.  *)
(***************************************************************************)
NormArrayNormalization(cls, v) ==
    IF v.ret THEN v
    ELSE IF ~cls.normalized THEN Fail(v, ErrorInvalidNormalization) ELSE v

NormArrayOffset(E, raw, v) ==
    IF v.ret \/ ~Declared(raw) THEN v
    ELSE AssignSized(v, "offset", getArrayValueNormalized(NormalizedTypeOf(E), raw), ErrorInvalidOffset)

\* The class constructor's scale.
NormArrayScale(E, raw, v) ==
    IF v.ret \/ ~Declared(raw) THEN v
    ELSE AssignSized(v, "scale", getArrayValueNormalized(NormalizedTypeOf(E), raw), ErrorInvalidScale)

\* The override constructors' scale: _count > 0 || size != count.
NormArrayOverrideScale(E, raw, v) ==
    IF v.ret \/ ~Declared(raw) THEN v
    ELSE AssignSizedOverride(v, "scale", getArrayValueNormalized(NormalizedTypeOf(E), raw), ErrorInvalidScale)

NormArrayMax(E, raw, v) ==
    IF v.ret \/ ~Declared(raw) THEN v
    ELSE AssignSized(v, "max", getArrayValueNormalized(NormalizedTypeOf(E), raw), ErrorInvalidMax)

NormArrayMin(E, raw, v) ==
    IF v.ret \/ ~Declared(raw) THEN v
    ELSE AssignSized(v, "min", getArrayValueNormalized(NormalizedTypeOf(E), raw), ErrorInvalidMin)

NormArrayNoData(E, raw, v) ==
    IF v.ret \/ ~Declared(raw) THEN v
    ELSE IF ~v.required
    THEN AssignAndRequire(v, "noData", getArrayValueNormalized(E, raw), "noData", ErrorInvalidNoDataValue)
    ELSE IF ~v.noData.has THEN Fail(v, ErrorInvalidNoDataValue) ELSE v

NormArrayDefault(E, raw, v) ==
    IF v.ret \/ ~Declared(raw) THEN v
    ELSE IF ~v.required
    THEN AssignAndRequire(v, "defaultValue", getArrayValueNormalized(NormalizedTypeOf(E), raw), "defaultValue", ErrorInvalidDefaultValue)
    ELSE IF ~v.defaultValue.has THEN Fail(v, ErrorInvalidDefaultValue) ELSE v

NormArrayClassCtor(E, cls) ==
    LET v0 == [EmptyView EXCEPT !.status = validateArrayPropertyType(E, cls),
                                !.count = CountOf(cls),
                                !.required = cls.required]
        v1 == ReturnUnlessValid(v0)
        v2 == NormArrayNormalization(cls, v1)
        v3 == NormArrayOffset(E, cls.offset, v2)
        v4 == NormArrayScale(E, cls.scale, v3)
        v5 == NormArrayMax(E, cls.max, v4)
        v6 == NormArrayMin(E, cls.min, v5)
        v7 == NormArrayNoData(E, cls.noData, v6)
        v8 == NormArrayDefault(E, cls.defaultProperty, v7)
    IN  Return(v8)

NormArrayOverride(E, property, constructed) ==
    LET v0 == [constructed EXCEPT !.ret = FALSE]
        v1 == ReturnUnlessValid(v0)
        v2 == NormArrayOffset(E, property.offset, v1)
        v3 == NormArrayOverrideScale(E, property.scale, v2)
        v4 == NormArrayMax(E, property.max, v3)
        v5 == NormArrayMin(E, property.min, v4)
    IN  Return(v5)

NormArrayTableCtor(E, cls, property) ==
    NormArrayOverride(E, property, NormArrayClassCtor(E, cls))

NormArrayTextureCtor(E, cls, property) ==
    NormArrayOverride(E, property, NormArrayClassCtor(E, cls))

(***************************************************************************)
(* PropertyView<PropertyArrayView<bool>> and                               *)
(* PropertyView<PropertyArrayView<std::string_view>>.                      *)
(***************************************************************************)
BoolArrayDefault(raw, v) ==
    IF v.ret \/ ~Declared(raw) THEN v
    ELSE LET got == getBooleanArrayValue(raw, v.size)
             w == IF ~v.required
                  THEN [v EXCEPT !.defaultValues = got.values, !.size = got.size]
                  ELSE v
         IN  IF w.size = 0 \/ (w.count > 0 /\ w.size # w.count)
             THEN Fail(w, ErrorInvalidDefaultValue)
             ELSE w

BoolArrayClassCtor(E, cls) ==
    LET v0 == [EmptyView EXCEPT !.status = validateArrayPropertyType(E, cls),
                                !.count = CountOf(cls),
                                !.required = cls.required]
        v1 == ReturnUnlessValid(v0)
        v2 == BoolArrayDefault(cls.defaultProperty, v1)
    IN  Return(v2)

StringArrayNoData(raw, v) ==
    IF v.ret \/ ~Declared(raw) THEN v
    ELSE LET got == getStringArrayValue(raw, v.noDataOffsets, v.noDataOffsetType,
                                        v.noDataSize)
             w == IF ~v.required
                  THEN [v EXCEPT !.noDataValues = got.values,
                                 !.noDataOffsets = got.offsets,
                                 !.noDataOffsetType = got.offsetType,
                                 !.noDataSize = got.size]
                  ELSE v
         IN  IF w.noDataSize = 0 \/ (w.count > 0 /\ w.noDataSize # w.count)
             THEN Fail(w, ErrorInvalidNoDataValue)
             ELSE w

\* The count is compared with _noDataSize here too.
StringArrayDefault(raw, v) ==
    IF v.ret \/ ~Declared(raw) THEN v
    ELSE LET got == getStringArrayValue(raw, v.defaultValueOffsets,
                                        v.defaultValueOffsetType, v.defaultValueSize)
             w == IF ~v.required
                  THEN [v EXCEPT !.defaultValues = got.values,
                                 !.defaultValueOffsets = got.offsets,
                                 !.defaultValueOffsetType = got.offsetType,
                                 !.defaultValueSize = got.size]
                  ELSE v
         IN  IF w.defaultValueSize = 0 \/ (w.count > 0 /\ w.noDataSize # w.count)
             THEN Fail(w, ErrorInvalidDefaultValue)
             ELSE w

StringArrayClassCtor(E, cls) ==
    LET v0 == [EmptyView EXCEPT !.status = validateArrayPropertyType(E, cls),
                                !.count = CountOf(cls),
                                !.required = cls.required]
        v1 == ReturnUnlessValid(v0)
        v2 == StringArrayNoData(cls.noData, v1)
        v3 == StringArrayDefault(cls.defaultProperty, v2)
    IN  Return(v3)

(***************************************************************************)
(* The view families, selected by the template arguments: T.type and       *)
(* T.component are TypeToPropertyType<ElementType>, T.array says whether   *)
(* the view is of PropertyArrayView<ElementType>, T.normalized is the      *)
(* Normalized argument.                                                    *)
(***************************************************************************)
ElementOf(t) == [type |-> t.type, component |-> t.component]

IsNumeric(t) == t.type \in {"Scalar", "Vec2", "Mat2"}

ClassCtor(t, cls) ==
    CASE t.type = "Boolean" /\ ~t.array -> BoolClassCtor(ElementOf(t), cls)
      [] t.type = "Boolean" /\ t.array -> BoolArrayClassCtor(ElementOf(t), cls)
      [] t.type = "String" /\ ~t.array -> StringClassCtor(ElementOf(t), cls)
      [] t.type = "String" /\ t.array -> StringArrayClassCtor(ElementOf(t), cls)
      [] IsNumeric(t) /\ ~t.array /\ ~t.normalized -> ScalarClassCtor(ElementOf(t), cls)
      [] IsNumeric(t) /\ ~t.array /\ t.normalized -> NormScalarClassCtor(ElementOf(t), cls)
      [] IsNumeric(t) /\ t.array /\ ~t.normalized -> ArrayClassCtor(ElementOf(t), cls)
      [] IsNumeric(t) /\ t.array /\ t.normalized -> NormArrayClassCtor(ElementOf(t), cls)

\* TableCtor with the boolean and string views reading the override as the
\* numeric views do.
TableCtorOverridingEveryView(t, cls, property) ==
    CASE ~IsNumeric(t) -> ScalarOverride(ElementOf(t), property, ClassCtor(t, cls))
      [] IsNumeric(t) /\ ~t.array /\ ~t.normalized ->
             ScalarTableCtor(ElementOf(t), cls, property)
      [] IsNumeric(t) /\ ~t.array /\ t.normalized ->
             NormScalarTableCtor(ElementOf(t), cls, property)
      [] IsNumeric(t) /\ t.array /\ ~t.normalized ->
             ArrayTableCtor(ElementOf(t), cls, property)
      [] IsNumeric(t) /\ t.array /\ t.normalized ->
             NormArrayTableCtor(ElementOf(t), cls, property)

TableCtor(t, cls, property) ==
    CASE ~IsNumeric(t) -> ClassCtor(t, cls)
      [] IsNumeric(t) /\ ~t.array /\ ~t.normalized ->
             ScalarTableCtor(ElementOf(t), cls, property)
      [] IsNumeric(t) /\ ~t.array /\ t.normalized ->
             NormScalarTableCtor(ElementOf(t), cls, property)
      [] IsNumeric(t) /\ t.array /\ ~t.normalized ->
             ArrayTableCtor(ElementOf(t), cls, property)
      [] IsNumeric(t) /\ t.array /\ t.normalized ->
             NormArrayTableCtor(ElementOf(t), cls, property)

TextureCtor(t, cls, property) ==
    CASE ~IsNumeric(t) -> ClassCtor(t, cls)
      [] IsNumeric(t) /\ ~t.array /\ ~t.normalized ->
             ScalarTextureCtor(ElementOf(t), cls, property)
      [] IsNumeric(t) /\ ~t.array /\ t.normalized ->
             NormScalarTextureCtor(ElementOf(t), cls, property)
      [] IsNumeric(t) /\ t.array /\ ~t.normalized ->
             ArrayTextureCtor(ElementOf(t), cls, property)
      [] IsNumeric(t) /\ t.array /\ t.normalized ->
             NormArrayTextureCtor(ElementOf(t), cls, property)

(***************************************************************************)
(* The public accessors.                                                   *)
(***************************************************************************)
status(v) == v.status
required(v) == v.required
arrayCount(t, v) == IF t.array THEN v.count ELSE 0
offset(t, v) == IF IsNumeric(t) THEN v.offset ELSE None
scale(t, v) == IF IsNumeric(t) THEN v.scale ELSE None
max(t, v) == IF IsNumeric(t) THEN v.max ELSE None
min(t, v) == IF IsNumeric(t) THEN v.min ELSE None

noData(t, v) ==
    CASE t.type = "Boolean" -> None
      [] t.type = "String" /\ t.array ->
             IF v.noDataSize > 0 THEN Some(v.noDataValues) ELSE None
      [] OTHER -> v.noData

defaultValue(t, v) ==
    CASE t.type = "Boolean" /\ t.array ->
             IF v.size > 0 THEN Some(v.defaultValues) ELSE None
      [] t.type = "String" /\ t.array ->
             IF v.noDataSize > 0 THEN Some(v.defaultValues) ELSE None
      [] OTHER -> v.defaultValue

(***************************************************************************)
(* The inputs.  For each requested view the descriptors are those within   *)
(* MaxDeclared changes of the minimal descriptor that matches it.          *)
(***************************************************************************)
ViewType(type, component, array, normalized) ==
    [type |-> type, component |-> component, array |-> array, normalized |-> normalized]

ViewTypes ==
    {ViewType("Scalar", "Uint8", FALSE, FALSE),
     ViewType("Scalar", "Float32", FALSE, FALSE),
     ViewType("Scalar", "Uint8", FALSE, TRUE),
     ViewType("Scalar", "Uint8", TRUE, FALSE),
     ViewType("Scalar", "Int16", TRUE, FALSE),
     ViewType("Scalar", "Float32", TRUE, FALSE),
     ViewType("Scalar", "Uint8", TRUE, TRUE),
     ViewType("Boolean", "None", FALSE, FALSE),
     ViewType("Boolean", "None", TRUE, FALSE),
     ViewType("String", "None", FALSE, FALSE),
     ViewType("String", "None", TRUE, FALSE)}

TypeStrings == {"SCALAR", "VEC2", "BOOLEAN", "STRING"}
\* "" stands for an absent componentType.
ComponentTypeStrings == {"", "UINT8", "INT16", "FLOAT32"}

TypeStringOf(type) ==
    CASE type = "Scalar" -> "SCALAR"
      [] type = "Vec2" -> "VEC2"
      [] type = "Mat2" -> "MAT2"
      [] type = "Boolean" -> "BOOLEAN"
      [] type = "String" -> "STRING"

ComponentTypeStringOf(component) ==
    CASE component = "Uint8" -> "UINT8"
      [] component = "Int16" -> "INT16"
      [] component = "Float32" -> "FLOAT32"
      [] component = "Float64" -> "FLOAT64"
      [] OTHER -> ""

\* The raw JSON values a descriptor of the view may declare for a member.
RawValues(t) ==
    CASE t.type = "Boolean" /\ ~t.array -> {JBool(TRUE), JBool(FALSE), JNum(1)}
      [] t.type = "Boolean" /\ t.array ->
             {JArr(<<>>), JArr(<<ABool(TRUE)>>), JArr(<<ABool(FALSE), ABool(TRUE)>>),
              JArr(<<ABool(TRUE), ANum(1)>>), JBool(TRUE)}
      [] t.type = "String" /\ ~t.array -> {JStr(<<97>>), JStr(<<98, 99>>), JNum(1)}
      [] t.type = "String" /\ t.array ->
             {JArr(<<>>), JArr(<<AStr(<<97>>)>>), JArr(<<AStr(<<97>>), AStr(<<98, 99>>)>>),
              JArr(<<AStr(<<97>>), ANum(1)>>), JStr(<<97>>)}
      [] IsNumeric(t) /\ ~t.array -> {JNum(1), JNum(2), JNum(300), JStr(<<120>>)}
      [] IsNumeric(t) /\ t.array ->
             {JArr(<<>>), JArr(<<ANum(1)>>), JArr(<<ANum(1), ANum(2)>>),
              JArr(<<ANum(1), AStr(<<120>>)>>), JNum(1)}

RawMembers == {"offset", "scale", "max", "min", "noData", "defaultProperty"}
OverrideMembers == {"offset", "scale", "max", "min"}

\* The minimal ClassProperty that the view t accepts.
Canonical(t) ==
    [type |-> TypeStringOf(t.type),
     hasComponentType |-> t.component # "None",
     componentType |-> ComponentTypeStringOf(t.component),
     array |-> t.array, hasCount |-> FALSE, count |-> 0,
     normalized |-> t.normalized, required |-> FALSE,
     offset |-> Absent, scale |-> Absent, max |-> Absent, min |-> Absent,
     noData |-> Absent, defaultProperty |-> Absent]

NoOverride == [offset |-> Absent, scale |-> Absent, max |-> Absent, min |-> Absent]

\* The descriptors that set one member of cls to another value.
OneChange(t, cls) ==
    {[cls EXCEPT !.type = s] : s \in TypeStrings}
    \cup {[cls EXCEPT !.hasComponentType = (s # ""), !.componentType = s] :
             s \in ComponentTypeStrings}
    \cup {[cls EXCEPT !.array = b] : b \in BOOLEAN}
    \cup {[cls EXCEPT !.normalized = b] : b \in BOOLEAN}
    \cup {[cls EXCEPT !.required = b] : b \in BOOLEAN}
    \cup {[cls EXCEPT !.hasCount = TRUE, !.count = n] : n \in 1..MaxCount}
    \cup {[cls EXCEPT ![m] = raw] : m \in RawMembers, raw \in RawValues(t)}

RECURSIVE ClassProperties(_, _)
\* The descriptors that differ from Canonical(t) in at most n members.
ClassProperties(t, n) ==
    IF n = 0
    THEN {Canonical(t)}
    ELSE LET fewer == ClassProperties(t, n - 1)
         IN  fewer \cup UNION {OneChange(t, cls) : cls \in fewer}

\* The number of members in which cls differs from Canonical(t).
Changes(t, cls) ==
    Cardinality({m \in DOMAIN cls \ {"hasComponentType", "hasCount"} :
                    cls[m] # Canonical(t)[m]})

RECURSIVE Overrides(_, _)
\* The overrides that declare at most n members.
Overrides(t, n) ==
    IF n <= 0
    THEN {NoOverride}
    ELSE LET fewer == Overrides(t, n - 1)
         IN  fewer \cup {[p EXCEPT ![m] = raw] :
                            p \in fewer, m \in OverrideMembers, raw \in RawValues(t)}

(***************************************************************************)
(* The constructors as operations.                                         *)
(***************************************************************************)
\* No call of a validator has returned yet.
NoResult == "none"

Init ==
    /\ T \in ViewTypes
    /\ cp \in ClassProperties(T, MaxDeclared)
    /\ prop = NoOverride
    /\ view = DefaultCtor
    /\ pc = "input"
    /\ result = NoResult
    /\ model = [textures |-> <<>>, samplers |-> <<>>, images |-> <<>>]

ConstructFromClass ==
    /\ pc = "input"
    /\ view' = ClassCtor(T, cp)
    /\ pc' = "class"
    /\ UNCHANGED <<T, cp, prop, result, model>>

ConstructFromTable ==
    /\ pc = "input"
    /\ \E property \in Overrides(T, MaxDeclared - Changes(T, cp)) :
           /\ prop' = property
           /\ view' = TableCtor(T, cp, property)
    /\ pc' = "table"
    /\ UNCHANGED <<T, cp, result, model>>

ConstructFromTexture ==
    /\ pc = "input"
    /\ \E property \in Overrides(T, MaxDeclared - Changes(T, cp)) :
           /\ prop' = property
           /\ view' = TextureCtor(T, cp, property)
    /\ pc' = "texture"
    /\ UNCHANGED <<T, cp, result, model>>

Next == ConstructFromClass \/ ConstructFromTable \/ ConstructFromTexture

Spec == Init /\ [][Next]_vars

(***************************************************************************)
(* The type validators on their own: every declared type, component type   *)
(* and array flag against every requested element type.                    *)
(***************************************************************************)
Headers(t) ==
    {[Canonical(t) EXCEPT !.type = s,
                          !.hasComponentType = (c # ""),
                          !.componentType = c,
                          !.array = b] :
        s \in TypeStrings, c \in ComponentTypeStrings, b \in BOOLEAN}

InitValidate ==
    /\ T \in ViewTypes
    /\ cp \in Headers(T)
    /\ prop = NoOverride
    /\ view = DefaultCtor
    /\ pc = "input"
    /\ result = NoResult
    /\ model = [textures |-> <<>>, samplers |-> <<>>, images |-> <<>>]

CallValidatePropertyType ==
    /\ pc = "input"
    /\ ~T.array
    /\ result' = validatePropertyType(ElementOf(T), cp)
    /\ pc' = "validated"
    /\ UNCHANGED <<T, cp, prop, view, model>>

CallValidateArrayPropertyType ==
    /\ pc = "input"
    /\ T.array
    /\ result' = validateArrayPropertyType(ElementOf(T), cp)
    /\ pc' = "validated"
    /\ UNCHANGED <<T, cp, prop, view, model>>

NextValidate == CallValidatePropertyType \/ CallValidateArrayPropertyType

SpecValidate == InitValidate /\ [][NextValidate]_vars

(***************************************************************************)
(* The array codecs on their own.  They are private static members, called *)
(* by the constructors on a raw member of the ClassProperty: the input is  *)
(* the default of an otherwise minimal descriptor of an array view.        *)
(***************************************************************************)
CodecTypes == {t \in ViewTypes : t.array}

\* The elements the input arrays are made of.  Negative numbers are given
\* to the integer codecs only (Float32Bits takes n >= 0).
CodecAtoms(t) ==
    CASE t.type = "Boolean" -> {ABool(TRUE), ABool(FALSE), ANum(1)}
      [] t.type = "String" -> {AStr(<<>>), AStr(<<97>>), AStr(<<98, 99>>), ABool(TRUE)}
      [] OTHER -> {ANum(0), ANum(1), ANum(300), AStr(<<120>>)}
                      \cup (IF t.normalized \/ IsFloat(t.component) THEN {} ELSE {ANum(-2)})

\* The sequences of at most n atoms.
ArraysOf(atoms, n) == UNION {[1..k -> atoms] : k \in 0..n}

\* A string of n bytes.
Filled(n) == [i \in 1..n |-> 97]

\* Boolean arrays that fill whole bytes and one element more.
LongBooleanArrays == {JArr([i \in 1..n |-> ABool(i % 3 # 0)]) : n \in {16, 17, 64, 65}}

\* String arrays whose total length is at, and one above, the largest value
\* of an offset width.
BoundaryStringArrays ==
    {JArr(<<AStr(Filled(n))>>) : n \in {255, 256, 65535, 65536}}
    \cup {JArr(<<AStr(Filled(n)), AStr(<<98>>)>>) : n \in {255, 65535}}

CodecInputs(t) ==
    CASE t.type = "Boolean" ->
             {JArr(a) : a \in ArraysOf(CodecAtoms(t), MaxBooleans)}
                 \cup LongBooleanArrays \cup {JBool(TRUE)}
      [] t.type = "String" ->
             {JArr(a) : a \in ArraysOf(CodecAtoms(t), MaxElements)}
                 \cup BoundaryStringArrays \cup {JStr(<<97>>)}
      [] OTHER ->
             {JArr(a) : a \in ArraysOf(CodecAtoms(t), MaxElements)} \cup {JNum(1)}

InitCodec ==
    /\ T \in CodecTypes
    /\ cp \in {[Canonical(T) EXCEPT !.defaultProperty = raw] : raw \in CodecInputs(T)}
    /\ prop = NoOverride
    /\ view = DefaultCtor
    /\ pc = "input"
    /\ result = NoResult
    /\ model = [textures |-> <<>>, samplers |-> <<>>, images |-> <<>>]

CallGetArrayValue ==
    /\ pc = "input"
    /\ IsNumeric(T) /\ ~T.normalized
    /\ result' = getArrayValue(ElementOf(T), cp.defaultProperty)
    /\ pc' = "encoded"
    /\ UNCHANGED <<T, cp, prop, view, model>>

CallGetArrayValueNormalized ==
    /\ pc = "input"
    /\ IsNumeric(T) /\ T.normalized
    /\ result' = getArrayValueNormalized(NormalizedTypeOf(ElementOf(T)), cp.defaultProperty)
    /\ pc' = "encoded"
    /\ UNCHANGED <<T, cp, prop, view, model>>

\* A write values[byteIndex] past the end of values is undefined: the call
\* is cut short by a checked operator[], or the write lands in the storage
\* reserve() left after the elements, the vector keeps its size and the
\* loop runs on to the end of the array.
CallGetBooleanArrayValue ==
    /\ pc = "input"
    /\ T.type = "Boolean"
    /\ LET got == getBooleanArrayValue(cp.defaultProperty, 0)
       IN  \/ /\ ~got.oob
              /\ result' = got
              /\ pc' = "encoded"
           \/ /\ got.oob
              /\ result' = [got EXCEPT !.size =
                               IF \A i \in 1..Len(cp.defaultProperty.a) :
                                      cp.defaultProperty.a[i].k = "bool"
                               THEN Len(cp.defaultProperty.a) ELSE 0]
              /\ pc' = "encoded"
           \/ /\ got.oob
              /\ result' = NoResult
              /\ pc' = "aborted"
    /\ UNCHANGED <<T, cp, prop, view, model>>

CallGetStringArrayValue ==
    /\ pc = "input"
    /\ T.type = "String"
    /\ result' = getStringArrayValue(cp.defaultProperty, EmptyView.defaultValueOffsets,
                                     EmptyView.defaultValueOffsetType,
                                     EmptyView.defaultValueSize)
    /\ pc' = "encoded"
    /\ UNCHANGED <<T, cp, prop, view, model>>

NextCodec ==
    \/ CallGetArrayValue
    \/ CallGetArrayValueNormalized
    \/ CallGetBooleanArrayValue
    \/ CallGetStringArrayValue

SpecCodec == InitCodec /\ [][NextCodec]_vars

(***************************************************************************)
(* The value parsers on their own: getValue hands the raw member to        *)
(* getScalar, getVecN or getMatN by the shape of the element type.  The    *)
(* input is the default of an otherwise minimal descriptor.                *)
(***************************************************************************)
ParseTypes ==
    {ViewType(type, component, FALSE, FALSE) :
        type \in {"Scalar", "Vec2", "Mat2"}, component \in {"Uint8", "Int16", "Float32"}}

\* The components of the input arrays: in range of every type, out of range
\* of uint8_t, and not a number.
ParseAtoms == {ANum(1), ANum(300), AStr(<<120>>)}

ParseInputs ==
    {JArr(a) : a \in ArraysOf(ParseAtoms, MaxComponents)}
        \cup {JNum(1), JNum(300), JNum(-2), JNum(40000), JStr(<<120>>), JBool(TRUE)}

InitParse ==
    /\ T \in ParseTypes
    /\ cp \in {[Canonical(T) EXCEPT !.defaultProperty = raw] : raw \in ParseInputs}
    /\ prop = NoOverride
    /\ view = DefaultCtor
    /\ pc = "input"
    /\ result = NoResult
    /\ model = [textures |-> <<>>, samplers |-> <<>>, images |-> <<>>]

CallGetScalar ==
    /\ pc = "input"
    /\ T.type = "Scalar"
    /\ result' = getScalar(T.component, cp.defaultProperty)
    /\ pc' = "parsed"
    /\ UNCHANGED <<T, cp, prop, view, model>>

CallGetVecN ==
    /\ pc = "input"
    /\ T.type = "Vec2"
    /\ result' = getVecN(ElementOf(T), cp.defaultProperty)
    /\ pc' = "parsed"
    /\ UNCHANGED <<T, cp, prop, view, model>>

CallGetMatN ==
    /\ pc = "input"
    /\ T.type = "Mat2"
    /\ result' = getMatN(ElementOf(T), cp.defaultProperty)
    /\ pc' = "parsed"
    /\ UNCHANGED <<T, cp, prop, view, model>>

NextParse == CallGetScalar \/ CallGetVecN \/ CallGetMatN

SpecParse == InitParse /\ [][NextParse]_vars

(***************************************************************************)
(* The value transforms of a constructed view.  A transformed value is the *)
(* real number num / den; the raw values and the offsets and scales of the *)
(* model are integers, so den is 1 or the divisor of normalize.            *)
(***************************************************************************)
\* normalize(value): the integer over the largest value of its type, and no
\* less than -1 for a signed type.
normalize(component, value) ==
    CASE component = "Uint8" -> [num |-> value, den |-> 255]
      [] component = "Int16" ->
             [num |-> IF value < -32767 THEN -32767 ELSE value, den |-> 32767]

\* applyOffsetAndScale(value, offset, scale): value * scale + offset, an
\* absent scale being 1 and an absent offset 0.
applyOffsetAndScale(value, off, scl) ==
    [num |-> value.num * (IF scl.has THEN scl.v[1] ELSE 1)
                 + (IF off.has THEN off.v[1] ELSE 0) * value.den,
     den |-> value.den]

\* PropertyView<ElementType, false>::applyValueTransforms
applyValueTransforms(v, value) ==
    IF v.offset.has \/ v.scale.has
    THEN applyOffsetAndScale([num |-> value, den |-> 1], v.offset, v.scale)
    ELSE [num |-> value, den |-> 1]

\* PropertyView<ElementType, true>::applyValueTransforms without its call
\* of normalize.
applyValueTransformsOfRaw(E, v, value) ==
    IF v.offset.has \/ v.scale.has
    THEN applyOffsetAndScale([num |-> value, den |-> 1], v.offset, v.scale)
    ELSE [num |-> value, den |-> 1]

\* PropertyView<ElementType, true>::applyValueTransforms
applyValueTransformsNormalized(E, v, value) ==
    IF v.offset.has \/ v.scale.has
    THEN applyOffsetAndScale(normalize(E.component, value), v.offset, v.scale)
    ELSE normalize(E.component, value)

\* Element i (from 0) of a PropertyArrayView<double> over bytes.
ElementAt(bytes, i) ==
    CHOOSE n \in 0..511 :
        BytesOfComponent("Float64", n) = SubSeq(bytes, 8 * i + 1, 8 * i + 8)

RECURSIVE NormArrayTransformLoop(_, _, _, _, _, _)
\* The for loop of the normalized array view's applyValueTransforms from
\* element i on (offset.size() and scale[i] read as the size and element
\* of the array the optional holds).  Line 2099 assigns the scaled element
\* to the vector result itself, not to result[i]: the vector is then that
\* one value and the loop has no further meaning (wellFormed is FALSE).
NormArrayTransformLoop(component, value, off, scl, i, resultVector) ==
    IF i >= Len(value)
    THEN [elements |-> resultVector, wellFormed |-> TRUE]
    ELSE IF scl.has /\ i < Len(scl.v) \div 8
    THEN [elements |-> <<[num |-> value[i + 1] * ElementAt(scl.v, i),
                         den |-> normalize(component, value[i + 1]).den]>>,
          wellFormed |-> FALSE]
    ELSE NormArrayTransformLoop(component, value, off, scl, i + 1,
             [resultVector EXCEPT ![i + 1] =
                 IF off.has /\ i < Len(off.v) \div 8
                 THEN [num |-> normalize(component, value[i + 1]).num
                                   + ElementAt(off.v, i)
                                         * normalize(component, value[i + 1]).den,
                       den |-> normalize(component, value[i + 1]).den]
                 ELSE normalize(component, value[i + 1])])

\* PropertyView<PropertyArrayView<ElementType>, true>::applyValueTransforms
applyArrayValueTransformsNormalized(E, v, value) ==
    NormArrayTransformLoop(E.component, value, v.offset, v.scale, 0,
                           [i \in 1..Len(value) |-> [num |-> 0, den |-> 1]])

\* The views whose transform is modelled: the numeric scalar views and the
\* normalized array view.
TransformTypes == {t \in ViewTypes : IsNumeric(t) /\ (~t.array \/ t.normalized)}

InitTransform ==
    /\ T \in TransformTypes
    /\ cp \in {c \in {[Canonical(T) EXCEPT !.offset = a, !.scale = b] :
                         a \in RawValues(T) \cup {Absent},
                         b \in RawValues(T) \cup {Absent}} :
                  status(ClassCtor(T, c)) = Valid}
    /\ prop = NoOverride
    /\ view = ClassCtor(T, cp)
    /\ pc = "class"
    /\ result = NoResult
    /\ model = [textures |-> <<>>, samplers |-> <<>>, images |-> <<>>]

\* applyValueTransforms of the view on a raw property value.
ApplyValueTransforms ==
    /\ pc = "class"
    /\ \E value \in (IF T.array
                     THEN ArraysOf({0, 51, 255}, MaxElements)
                     ELSE {0, 1, 51, 255}) :
           result' = [value |-> value,
                      transformed |->
                          CASE T.array ->
                                   applyArrayValueTransformsNormalized(ElementOf(T), view, value)
                            [] T.normalized ->
                                   applyValueTransformsNormalized(ElementOf(T), view, value)
                            [] OTHER -> applyValueTransforms(view, value)]
    /\ pc' = "transformed"
    /\ UNCHANGED <<T, cp, prop, view, model>>

SpecTransform == InitTransform /\ [][ApplyValueTransforms]_vars

(***************************************************************************)
(* FeatureTexturePropertyView (FeatureTexturePropertyView.cpp): the        *)
(* constructor from a Model, a ClassProperty and a TextureAccessor.  The   *)
(* model is its vectors of textures, samplers and images; a pointer into a *)
(* vector is <<i>> for the address of element i and <<>> for nullptr, and  *)
(* an optional is <<x>> or <<>>.  channels is the sequence of the          *)
(* characters of the string, channelOffsets the set of the offsets the     *)
(* loop assigned.  The indices the constructor compares with size() are    *)
(* first tested to be non-negative, and a negative componentCount cast to  *)
(* size_t equals no length, as the integer itself does not.                *)
(***************************************************************************)
MaxIndex == 1

RECURSIVE ChannelLoop(_, _, _)
\* The end of the constructor without the loop: no character is looked at.
ChannelLoopAcceptingAnyCharacter(channels, i, v) ==
    [v EXCEPT !.status = "Valid"]

\* The loop over the channel characters from character i on, and the
\* assignment of Valid after it.
ChannelLoop(channels, i, v) ==
    IF i >= Len(channels)
    THEN [v EXCEPT !.status = "Valid"]
    ELSE CASE channels[i + 1] = "r" ->
                  ChannelLoop(channels, i + 1,
                              [v EXCEPT !.channelOffsets = @ \cup {<<"r", 0>>}])
           [] channels[i + 1] = "g" ->
                  ChannelLoop(channels, i + 1,
                              [v EXCEPT !.channelOffsets = @ \cup {<<"g", 1>>}])
           [] channels[i + 1] = "b" ->
                  ChannelLoop(channels, i + 1,
                              [v EXCEPT !.channelOffsets = @ \cup {<<"b", 2>>}])
           [] channels[i + 1] = "a" ->
                  ChannelLoop(channels, i + 1,
                              [v EXCEPT !.channelOffsets = @ \cup {<<"a", 3>>}])
           [] OTHER -> [v EXCEPT !.status = "InvalidChannelsString"]

\* FeatureTexturePropertyView(const Model&, const ClassProperty&,
\*                            const TextureAccessor&)
FeatureTexturePropertyViewCtor(gltf, classProperty, textureAccessor) ==
    LET v0 == [pSampler |-> <<>>,
               pImage |-> <<>>,
               textureCoordinateIndex |-> textureAccessor.texture.texCoord,
               status |-> "InvalidUninitialized",
               channelOffsets |-> {},
               componentCount |-> 0,
               normalized |-> FALSE]
        index == textureAccessor.texture.index
    IN  IF index < 0 \/ index >= Len(gltf.textures)
        THEN [v0 EXCEPT !.status = "InvalidTextureIndex"]
        ELSE
        LET texture == gltf.textures[index + 1]
        IN  IF texture.sampler < 0 \/ texture.sampler >= Len(gltf.samplers)
            THEN [v0 EXCEPT !.status = "InvalidTextureSamplerIndex"]
            ELSE
            LET v1 == [v0 EXCEPT !.pSampler = <<texture.sampler>>]
            IN  IF texture.source < 0 \/ texture.source >= Len(gltf.images)
                THEN [v1 EXCEPT !.status = "InvalidTextureSourceIndex"]
                ELSE
                LET v2 == [v1 EXCEPT !.pImage = <<texture.source>>]
                    pImage == gltf.images[texture.source + 1].cesium
                IN  IF pImage.width < 1 \/ pImage.height < 1
                    THEN [v2 EXCEPT !.status = "InvalidEmptyImage"]
                    ELSE
                    LET v3 == [v2 EXCEPT
                                  !.componentCount =
                                      IF classProperty.componentCount # <<>>
                                      THEN classProperty.componentCount[1]
                                      ELSE 1,
                                  !.normalized = classProperty.normalized]
                    IN  IF \/ Len(textureAccessor.channels) > 4
                           \/ Len(textureAccessor.channels) > pImage.channels
                           \/ Len(textureAccessor.channels) # v3.componentCount
                        THEN [v3 EXCEPT !.status = "InvalidChannelsString"]
                        ELSE ChannelLoop(textureAccessor.channels, 0, v3)

\* The channel strings of the model: empty, valid ones, ones with a
\* character that names no channel, and one of five characters.
ChannelStrings ==
    {<<>>, <<"r">>, <<"x">>, <<"r", "g">>, <<"r", "x">>, <<"b", "a">>,
     <<"r", "g", "b", "a", "r">>}

\* The models, class properties and texture accessors of the model: up to
\* MaxIndex textures, samplers and images, the textures of a model alike and
\* its images alike, every index from -1 to MaxIndex.
FeatureTextureInputs ==
    [gltf : {[textures |-> [i \in 1..nt |-> [sampler |-> sa, source |-> so]],
              samplers |-> [i \in 1..ns |-> [wrapS |-> "REPEAT"]],
              images |-> [i \in 1..ni |-> [cesium |-> im]]] :
                nt \in 0..MaxIndex, ns \in 0..MaxIndex, ni \in 0..MaxIndex,
                sa \in -1..MaxIndex, so \in -1..MaxIndex,
                im \in [width : {0, 1}, height : {0, 1}, channels : {1, 4}]},
     classProperty : [componentCount : {<<>>, <<1>>, <<2>>, <<5>>},
                      normalized : BOOLEAN],
     textureAccessor : [texture : [index : -1..MaxIndex, texCoord : {0}],
                        channels : ChannelStrings]]

\* Before the constructor runs: the arguments, and the view as the default
\* constructor leaves it.
InitFeatureTexture ==
    /\ \E input \in FeatureTextureInputs :
           /\ model = input.gltf
           /\ cp = input.classProperty
           /\ prop = input.textureAccessor
    /\ T = ViewType("Scalar", "Uint8", FALSE, FALSE)
    /\ view = [pSampler |-> <<>>,
               pImage |-> <<>>,
               textureCoordinateIndex |-> -1,
               status |-> "InvalidUninitialized",
               channelOffsets |-> {},
               componentCount |-> 0,
               normalized |-> FALSE]
    /\ pc = "input"
    /\ result = NoResult

ConstructFeatureTextureView ==
    /\ pc = "input"
    /\ view' = FeatureTexturePropertyViewCtor(model, cp, prop)
    /\ pc' = "view"
    /\ UNCHANGED <<T, cp, prop, result, model>>

SpecFeatureTexture == InitFeatureTexture /\ [][ConstructFeatureTextureView]_vars

(***************************************************************************)
(* Properties of the constructors.                                         *)
(***************************************************************************)
Constructed == pc \in {"class", "table", "texture"}
Numeric == IsNumeric(T)

\* The members a class constructor reads, in the order it reads them, and
\* the error each one records.
Steps == <<"offset", "scale", "max", "min", "noData", "defaultProperty">>

ErrorOf(member) ==
    CASE member = "offset" -> ErrorInvalidOffset
      [] member = "scale" -> ErrorInvalidScale
      [] member = "max" -> ErrorInvalidMax
      [] member = "min" -> ErrorInvalidMin
      [] member = "noData" -> ErrorInvalidNoDataValue
      [] member = "defaultProperty" -> ErrorInvalidDefaultValue

\* The public accessor of a member of the view v of type t.
Accessor(member, t, v) ==
    CASE member = "offset" -> offset(t, v)
      [] member = "scale" -> scale(t, v)
      [] member = "max" -> max(t, v)
      [] member = "min" -> min(t, v)
      [] member = "noData" -> noData(t, v)
      [] member = "defaultProperty" -> defaultValue(t, v)

\* cls with the members after the first n of Steps undeclared.
Keep(cls, n) ==
    [m \in DOMAIN cls |->
        IF \E i \in (n + 1)..Len(Steps) : Steps[i] = m THEN Absent ELSE cls[m]]

TypeErrors == {ErrorTypeMismatch, ErrorComponentTypeMismatch, ErrorArrayTypeMismatch}

\* C1: after class-level construction, a view whose status is
\* ErrorInvalidNormalization has every accessor empty, and a view whose
\* status is the error of a member has the accessors of all later members
\* empty.
C1_NothingResolvedAfterError ==
    pc = "class" =>
        /\ status(view) = ErrorInvalidNormalization =>
               \A i \in 1..Len(Steps) : ~Accessor(Steps[i], T, view).has
        /\ \A i \in 1..Len(Steps) :
               status(view) = ErrorOf(Steps[i]) =>
                   \A j \in (i + 1)..Len(Steps) : ~Accessor(Steps[j], T, view).has

\* C2: the status is the first error in the fixed sequence: when the
\* constructor already fails on the descriptor cut after some member, it
\* gives that same status on the whole descriptor; and a view whose
\* class-level construction is not Valid is that class-level view, whatever
\* the override declares.
C2_FirstErrorIsKept ==
    Constructed =>
        /\ \A n \in 0..Len(Steps) :
               status(ClassCtor(T, Keep(cp, n))) # Valid =>
                   status(ClassCtor(T, cp)) = status(ClassCtor(T, Keep(cp, n)))
        /\ (pc # "class" /\ status(ClassCtor(T, cp)) # Valid) => view = ClassCtor(T, cp)

\* The type validation of the view T accepts cp.
TypeCompatible ==
    IF T.array
    THEN validateArrayPropertyType(ElementOf(T), cp) = Valid
    ELSE validatePropertyType(ElementOf(T), cp) = Valid

\* C3: a numeric view built from a type-compatible ClassProperty whose
\* normalized flag differs from the view's Normalized argument has status
\* ErrorInvalidNormalization, whatever else the ClassProperty declares.
C3_NormalizationGating ==
    (pc = "class" /\ Numeric /\ TypeCompatible /\ cp.normalized # T.normalized)
        => status(view) = ErrorInvalidNormalization

\* The declared type, and the declared component type ("None" when absent),
\* of cp as the enumerators the validators compare.
DeclaredType == convertStringToPropertyType(cp.type)
DeclaredComponent ==
    IF cp.hasComponentType
    THEN convertStringToPropertyComponentType(cp.componentType)
    ELSE "None"

\* C4: the validators return the first applicable mismatch in the order
\* type, component type, array-ness: ErrorTypeMismatch when the declared
\* type differs from the requested one; otherwise
\* ErrorComponentTypeMismatch when the declared component type is absent
\* and the requested type has one, or is present and differs; otherwise
\* ErrorArrayTypeMismatch when cp.array differs from the array-ness of the
\* requested view; otherwise Valid.
C4_FirstMismatchInOrder ==
    pc = "validated" =>
        result = IF DeclaredType # T.type
                 THEN ErrorTypeMismatch
                 ELSE IF DeclaredComponent # T.component
                 THEN ErrorComponentTypeMismatch
                 ELSE IF cp.array # T.array
                 THEN ErrorArrayTypeMismatch
                 ELSE Valid

\* Type, component type and array-ness all mismatch, and the type mismatch
\* is what the validator returned.
C4_Witness ==
    /\ pc = "validated"
    /\ DeclaredType # T.type
    /\ DeclaredComponent # T.component
    /\ cp.array # T.array
    /\ result = ErrorTypeMismatch

\* C5: when type validation fails, the view holds only that status: every
\* accessor is empty, required() is false and arrayCount() is 0.
C5_TypeFailureLeavesViewEmpty ==
    (pc = "class" /\ status(view) \in TypeErrors) =>
        /\ \A i \in 1..Len(Steps) : ~Accessor(Steps[i], T, view).has
        /\ required(view) = FALSE
        /\ arrayCount(T, view) = 0

\* C6 as stated: for every view whose component type is not Float32 /
\* Float64 and which is not normalized (integer, boolean and string views,
\* and their arrays), once type validation and the normalization check
\* pass, a ClassProperty that declares offset gives ErrorInvalidOffset and
\* one that declares scale without offset gives ErrorInvalidScale; and
\* when class-level construction is Valid the same holds of the override.
C6_OffsetScaleGatedForEveryView ==
    (Constructed /\ ~IsFloat(T.component) /\ ~T.normalized
     /\ TypeCompatible /\ ~cp.normalized) =>
        /\ Declared(cp.offset) => status(view) = ErrorInvalidOffset
        /\ (Declared(cp.scale) /\ ~Declared(cp.offset))
               => status(view) = ErrorInvalidScale
        /\ status(ClassCtor(T, cp)) = Valid =>
               /\ Declared(prop.offset) => status(view) = ErrorInvalidOffset
               /\ (Declared(prop.scale) /\ ~Declared(prop.offset))
                      => status(view) = ErrorInvalidScale

\* The non-normalized numeric views with an integer component type.
IntegerView == Numeric /\ ~IsFloat(T.component) /\ ~T.normalized

\* C6 amended: for a non-normalized numeric view (scalar or array) with an
\* integer component type, built from a type-compatible ClassProperty that
\* is not normalized: a ClassProperty that declares offset gives
\* ErrorInvalidOffset and one that declares scale without offset gives
\* ErrorInvalidScale, whatever the value; and when class-level
\* construction is Valid the same holds of the override's offset and scale.
C6_OffsetScaleGatedForIntegerViews ==
    (Constructed /\ IntegerView /\ TypeCompatible /\ ~cp.normalized) =>
        /\ Declared(cp.offset) => status(view) = ErrorInvalidOffset
        /\ (Declared(cp.scale) /\ ~Declared(cp.offset))
               => status(view) = ErrorInvalidScale
        /\ status(ClassCtor(T, cp)) = Valid =>
               /\ Declared(prop.offset) => status(view) = ErrorInvalidOffset
               /\ (Declared(prop.scale) /\ ~Declared(prop.offset))
                      => status(view) = ErrorInvalidScale

\* An integer scalar view whose ClassProperty declares a well-formed number
\* as offset, and which was rejected for it.
C6_Witness ==
    /\ pc = "class"
    /\ IntegerView /\ ~T.array
    /\ TypeCompatible /\ ~cp.normalized
    /\ cp.offset = JNum(1)
    /\ status(view) = ErrorInvalidOffset

\* cp without its noData and default: what the constructor checks before
\* it reads them.
WithoutNoDataAndDefault == [cp EXCEPT !.noData = Absent, !.defaultProperty = Absent]
EarlierChecksPass == status(ClassCtor(T, WithoutNoDataAndDefault)) = Valid

\* The families that read noData: all but booleans and boolean arrays.
ReadsNoData == T.type # "Boolean"

Overridden == pc \in {"table", "texture"}

\* The numeric scalar views that accept offset and scale: the normalized
\* ones and the non-normalized ones with a float component type.
TransformableScalarView ==
    Numeric /\ ~T.array /\ (T.normalized \/ IsFloat(T.component))

\* The type offset, scale, max and min are parsed as.
TransformType == IF T.normalized THEN NormalizedTypeOf(ElementOf(T)) ELSE ElementOf(T)

\* The errors of the members read before Steps[i].
EarlierErrors(i) == {ErrorOf(Steps[j]) : j \in 1..(i - 1)}

\* C8 as stated: when class-level construction is Valid, an override that
\* declares f in {offset, scale, max, min} with a parseable value makes f()
\* return that value, and an override that does not declare f leaves f()
\* at the class-level value.
C8_OverrideSupersedes ==
    (Overridden /\ TransformableScalarView /\ status(ClassCtor(T, cp)) = Valid) =>
        \A i \in 1..4 :
            /\ (Declared(prop[Steps[i]]) /\ getValue(TransformType, prop[Steps[i]]).has)
                   => Accessor(Steps[i], T, view) = getValue(TransformType, prop[Steps[i]])
            /\ ~Declared(prop[Steps[i]])
                   => Accessor(Steps[i], T, view) = Accessor(Steps[i], T, ClassCtor(T, cp))

\* C8 amended: the same for every f that the override constructor reaches,
\* that is, unless the view's status is the error of an override member
\* read before f in the order offset, scale, max, min.
C8_OverrideSupersedesUnlessStopped ==
    (Overridden /\ TransformableScalarView /\ status(ClassCtor(T, cp)) = Valid) =>
        \A i \in 1..4 :
            /\ (Declared(prop[Steps[i]]) /\ getValue(TransformType, prop[Steps[i]]).has
                /\ status(view) \notin EarlierErrors(i))
                   => Accessor(Steps[i], T, view) = getValue(TransformType, prop[Steps[i]])
            /\ ~Declared(prop[Steps[i]])
                   => Accessor(Steps[i], T, view) = Accessor(Steps[i], T, ClassCtor(T, cp))

\* Class-level offset 1, override offset 2: offset() is 2.
C8_Witness ==
    /\ Overridden
    /\ TransformableScalarView
    /\ status(ClassCtor(T, cp)) = Valid
    /\ cp.offset = JNum(1)
    /\ prop.offset = JNum(2)
    /\ status(view) = Valid
    /\ offset(T, view) = Some(<<2>>)

\* The overrides that declare exactly the member m.
DeclaresOnly(m) ==
    /\ Declared(prop[m])
    /\ \A o \in OverrideMembers \ {m} : ~Declared(prop[o])

\* cp with the override's value of m as its own.
WithClassLevel(m) == [cp EXCEPT ![m] = prop[m]]

\* C9: for every numeric view and every f in {offset, scale, max, min}, a
\* raw value given as the override's f (the ClassProperty not declaring f
\* and being Valid on its own) gives the same status and the same f() as
\* the same raw value given as the ClassProperty's f.
C9_OverrideValidatedLikeClass ==
    (Overridden /\ Numeric /\ status(ClassCtor(T, cp)) = Valid) =>
        \A m \in OverrideMembers :
            (DeclaresOnly(m) /\ ~Declared(cp[m])) =>
                /\ status(view) = status(ClassCtor(T, WithClassLevel(m)))
                /\ Accessor(m, T, view) = Accessor(m, T, ClassCtor(T, WithClassLevel(m)))

\* C10: for a numeric array view whose ClassProperty declares count = k > 0,
\* a declared offset, scale, max or min array whose number of elements
\* differs from k gives the error of that member, once the constructor
\* gets to it.
C10_CountMismatchRejected ==
    (pc = "class" /\ Numeric /\ T.array /\ cp.hasCount /\ cp.count > 0) =>
        \A i \in 1..4 :
            (/\ cp[Steps[i]].k = "arr"
             /\ Len(cp[Steps[i]].a) # cp.count
             /\ status(ClassCtor(T, Keep(cp, i - 1))) = Valid)
                => status(view) = ErrorOf(Steps[i])


\* The member m of cp is a JSON array of exactly cp.count elements, each of
\* which parses as the type the view reads offset, scale, max and min as.
MatchesCount(m) ==
    /\ cp[m].k = "arr"
    /\ Len(cp[m].a) = cp.count
    /\ ParseElements(TransformType, cp[m].a, 1).has

\* The array views that read offset and scale: the normalized ones and the
\* non-normalized ones with a float component type.
TransformableArrayView == Numeric /\ T.array /\ (T.normalized \/ IsFloat(T.component))

\* C11: for a numeric array view of any element type whose ClassProperty
\* declares count = k > 0, a declared offset, scale, max or min array of
\* exactly k parseable elements causes no error when the constructor gets
\* to it, and its accessor returns k elements.
C11_MatchingCountAccepted ==
    (pc = "class" /\ Numeric /\ T.array /\ cp.hasCount /\ cp.count > 0) =>
        \A i \in 1..4 :
            (/\ MatchesCount(Steps[i])
             /\ (i <= 2 => TransformableArrayView)
             /\ status(ClassCtor(T, Keep(cp, i - 1))) = Valid)
                => /\ status(ClassCtor(T, Keep(cp, i))) = Valid
                   /\ Len(Accessor(Steps[i], T, ClassCtor(T, Keep(cp, i))).v)
                          = cp.count * SizeOf(TransformType)


\* The member m of cp is a JSON array whose number of elements is not
\* cp.count.
MismatchesCount(m) == cp[m].k = "arr" /\ Len(cp[m].a) # cp.count

\* C12: in every array family, for a ClassProperty that is not required and
\* declares count = k > 0, once the earlier checks pass a declared noData
\* array whose number of elements differs from k gives
\* ErrorInvalidNoDataValue (in the families that read noData), and a
\* declared default array whose number of elements differs from k (noData
\* not being declared) gives ErrorInvalidDefaultValue.
C12_CountConstrainsNoDataAndDefault ==
    (pc = "class" /\ T.array /\ cp.hasCount /\ cp.count > 0 /\ ~cp.required
        /\ EarlierChecksPass) =>
        /\ (ReadsNoData /\ MismatchesCount("noData"))
               => status(view) = ErrorInvalidNoDataValue
        /\ (MismatchesCount("defaultProperty") /\ ~Declared(cp.noData))
               => status(view) = ErrorInvalidDefaultValue


\* Neither the ClassProperty nor the override declares a scale.
NoScaleDeclared == ~Declared(cp.scale) /\ ~Declared(prop.scale)

\* C13: in every numeric view family, when no scale is declared, a
\* ClassProperty that declares max gives ErrorInvalidMax and one that
\* declares min gives ErrorInvalidMin once the constructor gets to that
\* member; and when class-level construction is Valid, an override that
\* declares max (resp. min without max) and no offset gives ErrorInvalidMax
\* (resp. ErrorInvalidMin).
C13_MaxMinRequireScale ==
    (Constructed /\ Numeric /\ NoScaleDeclared) =>
        /\ (Declared(cp.max) /\ status(ClassCtor(T, Keep(cp, 2))) = Valid)
               => status(ClassCtor(T, Keep(cp, 3))) = ErrorInvalidMax
        /\ (Declared(cp.min) /\ status(ClassCtor(T, Keep(cp, 3))) = Valid)
               => status(ClassCtor(T, Keep(cp, 4))) = ErrorInvalidMin
        /\ (Overridden /\ status(ClassCtor(T, cp)) = Valid /\ ~Declared(prop.offset)) =>
               /\ Declared(prop.max) => status(view) = ErrorInvalidMax
               /\ (Declared(prop.min) /\ ~Declared(prop.max))
                      => status(view) = ErrorInvalidMin


\* C14: in a numeric view whose status is Valid, max() is empty only if
\* neither the ClassProperty nor the override declares max, and min() is
\* empty only if neither declares min.
C14_ValidViewHasDeclaredMaxMin ==
    (Constructed /\ Numeric /\ status(view) = Valid) =>
        /\ (Declared(cp.max) \/ Declared(prop.max)) => max(T, view).has
        /\ (Declared(cp.min) \/ Declared(prop.min)) => min(T, view).has


\* The members the family of T reads: numeric views all six, string views
\* noData and default, boolean views default.
ReadsMember(m) ==
    CASE Numeric -> TRUE
      [] T.type = "String" -> m \in {"noData", "defaultProperty"}
      [] OTHER -> m = "defaultProperty"

\* C20: in every array family, for a ClassProperty that is not required and
\* declares no count, a member the family reads that is declared as the
\* empty array [] gives the error of that member once the constructor gets
\* to it.
C20_EmptyArrayIsFailure ==
    (pc = "class" /\ T.array /\ ~cp.required /\ ~cp.hasCount) =>
        \A i \in 1..Len(Steps) :
            (/\ cp[Steps[i]] = JArr(<<>>)
             /\ ReadsMember(Steps[i])
             /\ status(ClassCtor(T, Keep(cp, i - 1))) = Valid)
                => status(ClassCtor(T, Keep(cp, i))) = ErrorOf(Steps[i])


(***************************************************************************)
(* Properties of the array codecs.                                         *)
(***************************************************************************)
\* A codec has returned.
Encoded == pc = "encoded"

\* The JSON value the codec was handed.
Input == cp.defaultProperty

\* The input is a JSON array whose elements are all of the kind k.
ArrayOfKind(k) == Input.k = "arr" /\ \A i \in 1..Len(Input.a) : Input.a[i].k = k

\* C15: for a JSON array of n >= 1 booleans, getBooleanArrayValue returns a
\* buffer of exactly ceil(n / 8) bytes and sets size to n.
C15_BooleanPackingSize ==
    (Encoded /\ T.type = "Boolean" /\ ArrayOfKind("bool") /\ Len(Input.a) >= 1) =>
        /\ Len(result.values) = (Len(Input.a) + 7) \div 8
        /\ result.size = Len(Input.a)


\* Bit b of the byte at index k (from 0) of the returned buffer; 0 when the
\* buffer has no such byte.
BitOf(values, k, b) == IF k < Len(values) THEN (values[k + 1] \div (2 ^ b)) % 2 ELSE 0

\* C16: for a JSON array of n booleans, getBooleanArrayValue returns, and
\* bit (i mod 8) of byte floor(i / 8) of the buffer it returns is 1 exactly
\* when element i is true; every other bit of the buffer is 0.
C16_BooleanBitPlacement ==
    (pc # "input" /\ T.type = "Boolean" /\ ArrayOfKind("bool")) =>
        /\ Encoded
        /\ \A k \in 0..(Len(result.values) - 1) : \A b \in 0..7 :
               BitOf(result.values, k, b) = 1 =>
                   /\ 8 * k + b < Len(Input.a)
                   /\ Input.a[8 * k + b + 1].n = 1
        /\ \A i \in 0..(Len(Input.a) - 1) :
               Input.a[i + 1].n = 1 => BitOf(result.values, i \div 8, i % 8) = 1


RECURSIVE FromLittleEndian(_)
\* The unsigned integer whose bytes, least significant first, are `bytes`.
FromLittleEndian(bytes) ==
    IF bytes = <<>> THEN 0 ELSE Head(bytes) + 256 * FromLittleEndian(Tail(bytes))

\* Entry k (from 0) of the returned offset table, read at the returned
\* offset width.
OffsetAt(k) ==
    LET w == OffsetWidth(result.offsetType)
    IN  FromLittleEndian(SubSeq(result.offsets, k * w + 1, (k + 1) * w))

\* C17: for a JSON array of n strings, getStringArrayValue sets size to n
\* and returns an offset table of n + 1 entries with offsets[0] = 0 and
\* offsets[k] = offsets[k-1] + len(string[k-1]), and a buffer of
\* offsets[n] bytes in which string k-1 lies between offsets[k-1] and
\* offsets[k]: the strings concatenated in order.
C17_StringOffsetsArePrefixSums ==
    (Encoded /\ T.type = "String" /\ ArrayOfKind("str")) =>
        LET n == Len(Input.a)
        IN  /\ result.size = n
            /\ Len(result.offsets) = (n + 1) * OffsetWidth(result.offsetType)
            /\ OffsetAt(0) = 0
            /\ \A k \in 1..n : OffsetAt(k) = OffsetAt(k - 1) + Len(Input.a[k].s)
            /\ Len(result.values) = OffsetAt(n)
            /\ \A k \in 1..n :
                   SubSeq(result.values, OffsetAt(k - 1) + 1, OffsetAt(k)) = Input.a[k].s

\* Three strings, one of two bytes, were encoded.
C17_Witness ==
    /\ Encoded
    /\ T.type = "String"
    /\ Input = JArr(<<AStr(<<97>>), AStr(<<98, 99>>), AStr(<<97>>)>>)
    /\ result.values = <<97, 98, 99, 97>>
    /\ result.offsets = <<0, 1, 3, 4>>
    /\ result.size = 3


RECURSIVE TotalLength(_, _)
\* The sum of the lengths of the first k strings of array.
TotalLength(array, k) ==
    IF k = 0 THEN 0 ELSE TotalLength(array, k - 1) + Len(array[k].s)

DecodeFloat(bits, m, bias) ==
    IF bits = 0 THEN 0
    ELSE LET e == (bits \div (2 ^ m)) - bias
             fraction == bits % (2 ^ m)
         IN  IF e < 0 \/ e > m \/ fraction % (2 ^ (m - e)) # 0
             THEN -1
             ELSE 2 ^ e + fraction \div (2 ^ (m - e))

\* The number the bytes of one component stand for.
DecodeComponent(component, bytes) ==
    CASE component = "Uint8" -> bytes[1]
      [] component = "Int16" ->
             IF FromLittleEndian(bytes) >= 32768
             THEN FromLittleEndian(bytes) - 65536
             ELSE FromLittleEndian(bytes)
      [] component = "Float32" -> DecodeFloat(FromLittleEndian(bytes), 23, 127)
      [] component = "Float64" ->
             IF SubSeq(bytes, 1, 4) # <<0, 0, 0, 0>>
             THEN -1
             ELSE DecodeFloat(FromLittleEndian(SubSeq(bytes, 5, 8)), 20, 1023)

\* C19: for a JSON array of n elements that each parse as the element type,
\* getArrayValue returns n * sizeof(element) bytes whose n consecutive
\* elements decode to the input elements in order; for a value that is not
\* an array, or an array with an element that does not parse, it returns
\* no value.
C19_NumericArrayRoundTrip ==
    (Encoded /\ IsNumeric(T)) =>
        IF /\ Input.k = "arr"
           /\ \A i \in 1..Len(Input.a) : getValue(TransformType, AsJson(Input.a[i])).has
        THEN /\ result.has
             /\ Len(result.v) = Len(Input.a) * SizeOf(TransformType)
             /\ \A i \in 1..Len(Input.a) :
                    DecodeComponent(TransformType.component,
                                    SubSeq(result.v, (i - 1) * SizeOf(TransformType) + 1,
                                           i * SizeOf(TransformType)))
                        = Input.a[i].n
        ELSE ~result.has

\* An int16 array with a negative element was encoded.
C19_Witness ==
    /\ Encoded
    /\ T = ViewType("Scalar", "Int16", TRUE, FALSE)
    /\ Input = JArr(<<ANum(300), ANum(-2)>>)
    /\ result = Some(<<44, 1, 254, 255>>)


(***************************************************************************)
(* Properties of the value parsers.                                        *)
(***************************************************************************)
\* The number n is representable in the component type.
Representable(component, n) ==
    CASE component = "Uint8" -> n \in 0..255
      [] component = "Int16" -> n \in (-32768)..32767
      [] OTHER -> TRUE

\* The input is an array of exactly n numbers representable in the
\* component type of T.
WellShaped(n) ==
    /\ Input.k = "arr"
    /\ Len(Input.a) = n
    /\ \A i \in 1..n : Input.a[i].k = "num" /\ Representable(T.component, Input.a[i].n)

\* C21: getScalar returns a value exactly for a number representable in the
\* target type, getVecN exactly for an array of N representable numbers,
\* getMatN exactly for an array of N * N of them; the value holds the
\* numbers in order, and every other input gives no value.
C21_ParsersAcceptWellShapedOnly ==
    pc = "parsed" =>
        CASE T.type = "Scalar" ->
                 IF Input.k = "num" /\ Representable(T.component, Input.n)
                 THEN result = Some(<<Input.n>>)
                 ELSE result = None
          [] T.type = "Vec2" ->
                 IF WellShaped(2)
                 THEN result = Some([i \in 1..2 |-> Input.a[i].n])
                 ELSE result = None
          [] T.type = "Mat2" ->
                 IF WellShaped(4)
                 THEN result = Some([i \in 1..4 |-> Input.a[i].n])
                 ELSE result = None

\* A two-element array whose second component is out of range of uint8_t
\* was refused by getVecN.
C21_Witness ==
    /\ pc = "parsed"
    /\ T = ViewType("Vec2", "Uint8", FALSE, FALSE)
    /\ Input = JArr(<<ANum(1), ANum(300)>>)
    /\ result = None


\* C22: after construction by any constructor, arrayCount() is 0 for every
\* non-array view, and for an array view built from a type-compatible
\* ClassProperty it is the declared count, or 0 when no count is declared.
C22_ArrayCountIsDeclaredCount ==
    Constructed =>
        /\ ~T.array => arrayCount(T, view) = 0
        /\ (T.array /\ TypeCompatible) =>
               arrayCount(T, view) = (IF cp.hasCount THEN cp.count ELSE 0)

\* A Valid array view of a ClassProperty that declares count 2.
C22_Witness ==
    /\ pc = "table"
    /\ T.array
    /\ cp.hasCount /\ cp.count = 2
    /\ status(view) = Valid
    /\ arrayCount(T, view) = 2


\* The member m of cp is a JSON array of at least one string, of cp.count
\* strings when a count is declared.
StringsOfCount(m) ==
    /\ cp[m].k = "arr"
    /\ Len(cp[m].a) >= 1
    /\ \A i \in 1..Len(cp[m].a) : cp[m].a[i].k = "str"
    /\ cp.hasCount => Len(cp[m].a) = cp.count

\* C23: for a string-array view of a type-compatible ClassProperty that is
\* not required, a declared default of k >= 1 strings (k = count when a
\* count is declared) gives a Valid view whose defaultValue() holds those
\* strings, whether noData is undeclared or declared and well-formed; and
\* defaultValue() is empty whenever no default is declared.
C23_StringArrayDefaultIndependent ==
    (pc = "class" /\ T.type = "String" /\ T.array /\ TypeCompatible /\ ~cp.required) =>
        /\ (StringsOfCount("defaultProperty")
               /\ (Declared(cp.noData) => StringsOfCount("noData")))
               => /\ status(view) = Valid
                  /\ defaultValue(T, view) = Some(ConcatStrings(cp.defaultProperty.a, 1))
        /\ ~Declared(cp.defaultProperty) => ~defaultValue(T, view).has


\* C24: the type validation of a boolean or string view (or of an array
\* view of them), on a ClassProperty of that type whose array flag matches
\* the view, never returns ErrorComponentTypeMismatch, whatever the
\* componentType member holds.
C24_NoComponentCheckForBooleanAndString ==
    (pc = "validated" /\ T.type \in {"Boolean", "String"}
        /\ cp.type = TypeStringOf(T.type) /\ cp.array = T.array)
        => result # ErrorComponentTypeMismatch


(***************************************************************************)
(* Properties of the value transforms.                                     *)
(***************************************************************************)
Transformed == pc = "transformed"

\* The resolved scale of the view, 1 when there is none, and its resolved
\* offset, 0 when there is none.
ScaleOrOne == IF scale(T, view).has THEN scale(T, view).v[1] ELSE 1
OffsetOrZero == IF offset(T, view).has THEN offset(T, view).v[1] ELSE 0

\* C25: applyValueTransforms of a non-normalized scalar view returns the
\* raw value when the view has neither offset nor scale and
\* raw * scale + offset otherwise (a missing scale as 1, a missing offset
\* as 0); of a normalized scalar view it returns raw / 255 multiplied by
\* scale and then increased by offset, which is raw / 255 itself when the
\* view has neither.
C25_ScalarTransform ==
    (Transformed /\ ~T.array) =>
        IF T.normalized
        THEN /\ result.transformed.den = 255
             /\ result.transformed.num = result.value * ScaleOrOne + OffsetOrZero * 255
        ELSE /\ result.transformed.den = 1
             /\ result.transformed.num =
                    (IF offset(T, view).has \/ scale(T, view).has
                     THEN result.value * ScaleOrOne + OffsetOrZero
                     ELSE result.value)

\* A normalized uint8 view with scale 2 and offset 1 transformed the raw
\* value 51 (0.2) to 357 / 255 (1.4).
C25_Witness ==
    /\ Transformed
    /\ T = ViewType("Scalar", "Uint8", FALSE, TRUE)
    /\ cp.scale = JNum(2) /\ cp.offset = JNum(1)
    /\ result.value = 51
    /\ result.transformed = [num |-> 357, den |-> 255]


\* Element i (from 0) of the result the claim describes for a normalized
\* array view: normalize(value[i]), times scale[i] below the scale's
\* length, plus offset[i] below the offset's length.
ElementwiseTransform(i) ==
    [num |-> result.value[i + 1]
                 * (IF view.scale.has /\ i < Len(view.scale.v) \div 8
                    THEN ElementAt(view.scale.v, i) ELSE 1)
             + (IF view.offset.has /\ i < Len(view.offset.v) \div 8
                THEN ElementAt(view.offset.v, i) ELSE 0)
                   * normalize(T.component, result.value[i + 1]).den,
     den |-> normalize(T.component, result.value[i + 1]).den]

\* C26: applyValueTransforms of a normalized array view returns an array
\* with as many elements as its input, in which element i is
\* normalize(value[i]) multiplied by scale[i] when i is below the scale's
\* length and then increased by offset[i] when i is below the offset's
\* length; transforming element i leaves the other elements of the result
\* as they were.
C26_ArrayTransformIsElementwise ==
    (Transformed /\ T.array) =>
        /\ result.transformed.wellFormed
        /\ Len(result.transformed.elements) = Len(result.value)
        /\ \A i \in 0..(Len(result.value) - 1) :
               result.transformed.elements[i + 1] = ElementwiseTransform(i)


\* C27: for a JSON array of any number of booleans, every write
\* values[byteIndex] of getBooleanArrayValue is to an index below the
\* current length of values, so the call runs to its return without a
\* write outside the buffer.
C27_BooleanPackingWritesInBounds ==
    (pc # "input" /\ T.type = "Boolean" /\ ArrayOfKind("bool")) =>
        /\ pc # "aborted"
        /\ ~result.oob


\* What the public accessors of a view return.
Observed(v) ==
    [status |-> status(v), offset |-> offset(T, v), scale |-> scale(T, v),
     max |-> max(T, v), min |-> min(T, v), required |-> required(v),
     noData |-> noData(T, v), defaultValue |-> defaultValue(T, v),
     arrayCount |-> arrayCount(T, v)]

C29_BooleanAndStringIgnoreNumericMembers ==
    (Constructed /\ ~IsNumeric(T)) =>
        /\ view = ClassCtor(T, cp)
        /\ offset(T, view) = None /\ scale(T, view) = None
        /\ max(T, view) = None /\ min(T, view) = None
        /\ T.type = "Boolean" => noData(T, view) = None
        /\ status(view) = status(ClassCtor(T, [cp EXCEPT !.offset = Absent,
                                                        !.scale = Absent,
                                                        !.max = Absent,
                                                        !.min = Absent]))

\* A boolean view was built, and is valid, from a ClassProperty that
\* declares a scale and a table property that declares an offset.
C29_Witness ==
    /\ pc = "table"
    /\ T.type = "Boolean"
    /\ Declared(cp.scale)
    /\ Declared(prop.offset)
    /\ status(view) = Valid


(***************************************************************************)
(* Properties of the FeatureTexturePropertyView constructor.               *)
(***************************************************************************)
\* The checks of the constructor as conditions on its arguments; each one
\* is asked only when the ones before it pass.
TextureIndexInRange ==
    prop.texture.index >= 0 /\ prop.texture.index < Len(model.textures)

SamplerIndexInRange ==
    LET sampler == model.textures[prop.texture.index + 1].sampler
    IN  sampler >= 0 /\ sampler < Len(model.samplers)

SourceIndexInRange ==
    LET source == model.textures[prop.texture.index + 1].source
    IN  source >= 0 /\ source < Len(model.images)

SourceImage == model.images[model.textures[prop.texture.index + 1].source + 1].cesium

ImageNotEmpty == SourceImage.width >= 1 /\ SourceImage.height >= 1

ChannelsLengthFits ==
    /\ Len(prop.channels) <= 4
    /\ Len(prop.channels) <= SourceImage.channels
    /\ Len(prop.channels) = (IF cp.componentCount = <<>> THEN 1 ELSE cp.componentCount[1])

ChannelsNameChannels ==
    \A i \in 1..Len(prop.channels) : prop.channels[i] \in {"r", "g", "b", "a"}

FirstFailingCheck ==
    CASE ~TextureIndexInRange -> "InvalidTextureIndex"
      [] ~SamplerIndexInRange -> "InvalidTextureSamplerIndex"
      [] ~SourceIndexInRange -> "InvalidTextureSourceIndex"
      [] ~ImageNotEmpty -> "InvalidEmptyImage"
      [] ~ChannelsLengthFits -> "InvalidChannelsString"
      [] ~ChannelsNameChannels -> "InvalidChannelsString"
      [] OTHER -> "Valid"

\* C30: the FeatureTexturePropertyView constructor reports the first check
\* that fails, in the order texture index, sampler index, image source
\* index, image not empty, channels length (at most 4, at most the image's
\* channels, equal to the component count, 1 by default), channel
\* characters among r, g, b, a; the status is Valid exactly when all pass;
\* the sampler pointer is set only if the sampler check passed and the
\* image pointer only if the source check passed.
C30_FirstFailingCheckReported ==
    pc = "view" =>
        /\ view.status = FirstFailingCheck
        /\ view.pSampler # <<>> => (TextureIndexInRange /\ SamplerIndexInRange)
        /\ view.pImage # <<>> =>
               (TextureIndexInRange /\ SamplerIndexInRange /\ SourceIndexInRange)

\* Both the sampler index and the source index of the texture were out of
\* range, and the constructor reported the sampler index.
C30_Witness ==
    /\ pc = "view"
    /\ TextureIndexInRange
    /\ ~SamplerIndexInRange
    /\ ~SourceIndexInRange
    /\ view.status = "InvalidTextureSamplerIndex"
    /\ view.pSampler = <<>>

====
